---- MODULE Spec2Model ----
(***************************************************************************)
(* Candle validation and consistency pipeline:                             *)
(*   CandleSecurityService  (sanitizer, threat screener, rate limiter)     *)
(*   CandleValidationService (structural validator, zod schemas)           *)
(*   CandleInputCore        (validate / save / undo / redo / history)      *)
(*                                                                         *)
(* Text is modelled as a sequence of one-character strings, so that the    *)
(* sanitizer, parseFloat and the signature regexes work on characters.     *)
(* Numbers are exact decimals (sign, integer digits, fraction digits): the *)
(* IEEE-754 rounding of parseFloat is not modelled, which is exact for the *)
(* values the validators accept (at most 15 significant digits).           *)
(***************************************************************************)
EXTENDS Integers, Sequences, FiniteSets, TLC

(***************************************************************************)
(* Characters and small sequence helpers                                   *)
(***************************************************************************)
Digits == {"0", "1", "2", "3", "4", "5", "6", "7", "8", "9"}

DigitVal(c) ==
    CASE c = "0" -> 0 [] c = "1" -> 1 [] c = "2" -> 2 [] c = "3" -> 3
      [] c = "4" -> 4 [] c = "5" -> 5 [] c = "6" -> 6 [] c = "7" -> 7
      [] c = "8" -> 8 [] c = "9" -> 9

Front(s) == SubSeq(s, 1, Len(s) - 1)

Last(s) == s[Len(s)]

Slice(s, from, to) == SubSeq(s, from + 1, IF to < Len(s) THEN to ELSE Len(s))

CountOf(s, c) == Cardinality({i \in 1..Len(s) : s[i] = c})

IndexOf(s, c) ==
    LET hits == {i \in 1..Len(s) : s[i] = c}
    IN  IF hits = {} THEN 0 ELSE CHOOSE i \in hits : \A j \in hits : i <= j

Without(s, c) == SelectSeq(s, LAMBDA x : x # c)

StartsWith(s, c) == Len(s) > 0 /\ s[1] = c

(***************************************************************************)
(* CandleSecurityService.sanitizeNumericInput                              *)
(***************************************************************************)
StripNonNumeric(value) == SelectSeq(value, LAMBDA c : c \in Digits \cup {".", "-"})

CollapseDots(s) ==
    LET i == IndexOf(s, ".")
    IN  IF CountOf(s, ".") > 1
        THEN SubSeq(s, 1, i) \o Without(SubSeq(s, i + 1, Len(s)), ".")
        ELSE s

\* a collapse that removes only the first of several minus signs
CollapseMinusOnce(s) ==
    IF CountOf(s, "-") > 1
    THEN SubSeq(s, 1, IndexOf(s, "-") - 1) \o SubSeq(s, IndexOf(s, "-") + 1, Len(s))
    ELSE s

CollapseMinus(s) ==
    IF CountOf(s, "-") > 1
    THEN IF StartsWith(s, "-") THEN <<"-">> \o Without(s, "-") ELSE Without(s, "-")
    ELSE s

\* a sanitizer that leaves a minus sign wherever it is
KeepInnerMinus(s) == s

DropInnerMinus(s) ==
    IF CountOf(s, "-") > 0 /\ ~StartsWith(s, "-") THEN Without(s, "-") ELSE s

MAX_DECIMALS == 8

LimitDecimals(s) ==
    LET i == IndexOf(s, ".")
    IN  IF i > 0
        THEN SubSeq(s, 1, i) \o Slice(SubSeq(s, i + 1, Len(s)), 0, MAX_DECIMALS)
        ELSE s

MAX_LENGTH == 20

LimitLength(s) == IF Len(s) > MAX_LENGTH THEN Slice(s, 0, MAX_LENGTH) ELSE s

sanitizeNumericInput(value) ==
    LimitLength(LimitDecimals(DropInnerMinus(CollapseMinus(CollapseDots(
        StripNonNumeric(value))))))

(***************************************************************************)
(* Numbers: exact decimals.  k is "num", "nan" or "inf"; ip are the        *)
(* integer digits without leading zeros, fp the fraction digits without    *)
(* trailing zeros (zero is ip = fp = << >>).                               *)
(***************************************************************************)
RECURSIVE StripLeadingZeros(_)
StripLeadingZeros(d) ==
    IF Len(d) > 0 /\ d[1] = 0 THEN StripLeadingZeros(Tail(d)) ELSE d

RECURSIVE StripTrailingZeros(_)
StripTrailingZeros(d) ==
    IF Len(d) > 0 /\ Last(d) = 0 THEN StripTrailingZeros(Front(d)) ELSE d

Zeros(n) == [i \in 1..n |-> 0]

NaN == [k |-> "nan", neg |-> FALSE, ip |-> << >>, fp |-> << >>]

\* a field of a record that is missing: undefined
Undefined == [k |-> "undefined", neg |-> FALSE, ip |-> << >>, fp |-> << >>]

Infinity(neg) == [k |-> "inf", neg |-> neg, ip |-> << >>, fp |-> << >>]

Num(neg, ip, fp) ==
    [k |-> "num", neg |-> neg, ip |-> StripLeadingZeros(ip), fp |-> StripTrailingZeros(fp)]

RECURSIVE NatDigits(_)
NatDigits(n) == IF n = 0 THEN << >> ELSE NatDigits(n \div 10) \o <<n % 10>>

Nat2Num(n) == Num(FALSE, NatDigits(n), << >>)

IsZero(v) == v.k = "num" /\ v.ip = << >> /\ v.fp = << >>

Neg(v) == [v EXCEPT !.neg = ~v.neg]

\* the sequences of decimal digits, and the numbers: functions over these sets
\* take their arguments as values
DigitSeqs == Seq(0..9)

Decimals == [k : {"num", "nan", "inf"}, neg : BOOLEAN, ip : DigitSeqs, fp : DigitSeqs]

\* -1, 0, 1 for two digit sequences of the same length
CmpDigits[a \in DigitSeqs, b \in DigitSeqs] ==
    IF Len(a) = 0 THEN 0
    ELSE IF a[1] < b[1] THEN -1
    ELSE IF a[1] > b[1] THEN 1
    ELSE CmpDigits[Tail(a), Tail(b)]

PadLeft(d, n) == Zeros(n - Len(d)) \o d

PadRight(d, n) == d \o Zeros(n - Len(d))

MaxOf(a, b) == IF a >= b THEN a ELSE b

\* the digits of |v| in units of 10^-f, f >= Len(v.fp)
Scaled(v, f) == v.ip \o PadRight(v.fp, f)

CmpMag[a \in Decimals, b \in Decimals] ==
    LET f == MaxOf(Len(a.fp), Len(b.fp))
        n == MaxOf(Len(a.ip), Len(b.ip)) + f
    IN  CmpDigits[PadLeft(Scaled(a, f), n), PadLeft(Scaled(b, f), n)]

\* -1, 0, 1 for two numbers that are not NaN
Cmp[a \in Decimals, b \in Decimals] ==
    LET sa == IF IsZero(a) THEN 0 ELSE IF a.neg THEN -1 ELSE 1
        sb == IF IsZero(b) THEN 0 ELSE IF b.neg THEN -1 ELSE 1
    IN  IF sa # sb THEN (IF sa < sb THEN -1 ELSE 1)
        ELSE IF sa = 0 THEN 0
        ELSE IF a.k = "inf" /\ b.k = "inf" THEN 0
        ELSE IF a.k = "inf" THEN sa
        ELSE IF b.k = "inf" THEN 0 - sa
        ELSE sa * CmpMag[a, b]

\* JavaScript comparisons: false as soon as an operand is NaN
IsNaN(v) == v.k = "nan"
IsFinite(v) == v.k = "num"
IsInteger(v) == v.k = "num" /\ v.fp = << >>
GE(a, b) == ~IsNaN(a) /\ ~IsNaN(b) /\ Cmp[a, b] >= 0
LE(a, b) == ~IsNaN(a) /\ ~IsNaN(b) /\ Cmp[a, b] <= 0
GT(a, b) == ~IsNaN(a) /\ ~IsNaN(b) /\ Cmp[a, b] > 0
LT(a, b) == ~IsNaN(a) /\ ~IsNaN(b) /\ Cmp[a, b] < 0

\* Math.max / Math.min: NaN if an operand is NaN
MathMax(a, b) == IF IsNaN(a) \/ IsNaN(b) THEN NaN ELSE IF Cmp[a, b] >= 0 THEN a ELSE b
MathMin(a, b) == IF IsNaN(a) \/ IsNaN(b) THEN NaN ELSE IF Cmp[a, b] <= 0 THEN a ELSE b

\* A + B + carry, for digit sequences of the same length
AddDigits[A \in DigitSeqs, B \in DigitSeqs, carry \in 0..1] ==
    IF Len(A) = 0 THEN (IF carry = 0 THEN << >> ELSE <<carry>>)
    ELSE AddDigits[Front(A), Front(B), (Last(A) + Last(B) + carry) \div 10]
             \o <<(Last(A) + Last(B) + carry) % 10>>

\* A - B - borrow, for digit sequences of the same length with A >= B
SubDigits[A \in DigitSeqs, B \in DigitSeqs, borrow \in 0..1] ==
    IF Len(A) = 0 THEN << >>
    ELSE SubDigits[Front(A), Front(B), IF Last(A) - Last(B) - borrow < 0 THEN 1 ELSE 0]
             \o <<(Last(A) - Last(B) - borrow + 10) % 10>>

\* A * k + carry
MulDigits[A \in DigitSeqs, k \in Nat, carry \in Nat] ==
    IF Len(A) = 0 THEN NatDigits(carry)
    ELSE MulDigits[Front(A), k, (Last(A) * k + carry) \div 10]
             \o <<(Last(A) * k + carry) % 10>>

\* the number with digits d in units of 10^-f
Unscaled[neg \in BOOLEAN, d \in DigitSeqs, f \in Nat] ==
    IF Len(d) >= f
    THEN Num(neg, SubSeq(d, 1, Len(d) - f), SubSeq(d, Len(d) - f + 1, Len(d)))
    ELSE Num(neg, << >>, PadLeft(d, f))

\* the sum of two finite numbers whose digits, in units of 10^-f, are A and B
PlusDigits[a \in Decimals, b \in Decimals, A \in DigitSeqs, B \in DigitSeqs, f \in Nat] ==
    IF a.neg = b.neg THEN Unscaled[a.neg, AddDigits[A, B, 0], f]
    ELSE IF CmpDigits[A, B] >= 0 THEN Unscaled[a.neg, SubDigits[A, B, 0], f]
    ELSE Unscaled[b.neg, SubDigits[B, A, 0], f]

\* a + b
Plus[a \in Decimals, b \in Decimals] ==
    LET f == MaxOf(Len(a.fp), Len(b.fp))
        n == MaxOf(Len(a.ip), Len(b.ip)) + f
    IN  IF IsNaN(a) \/ IsNaN(b) THEN NaN
        ELSE IF a.k = "inf" THEN (IF b.k = "inf" /\ a.neg # b.neg THEN NaN ELSE a)
        ELSE IF b.k = "inf" THEN b
        ELSE PlusDigits[a, b, PadLeft(Scaled(a, f), n), PadLeft(Scaled(b, f), n), f]

\* a - b
Minus(a, b) == Plus[a, Neg(b)]

\* a * k for a natural number k
Times[a \in Decimals, k \in Nat] ==
    IF a.k # "num" THEN a
    ELSE Unscaled[a.neg, MulDigits[a.ip \o a.fp, k, 0], Len(a.fp)]

(***************************************************************************)
(* parseFloat: the longest prefix that is a decimal literal, after leading *)
(* white space; NaN when there is none.  The value is the exact decimal.   *)
(***************************************************************************)
WhiteSpace == {" ", "\t", "\n"}

\* the length of the run of digits of s that starts at position i
DigitRun(s, i) ==
    LET stops == {j \in i..Len(s) : s[j] \notin Digits}
    IN  IF stops = {} THEN MaxOf(Len(s) - i + 1, 0)
        ELSE (CHOOSE j \in stops : \A x \in stops : j <= x) - i

DigitVals(s, i, n) == [j \in 1..n |-> DigitVal(s[i + j - 1])]

DigitsToNat[d \in DigitSeqs] == IF Len(d) = 0 THEN 0 ELSE DigitsToNat[Front(d)] * 10 + Last(d)

\* v * 10^e
ShiftExp[v \in Decimals, e \in Int] ==
    IF e >= 0
    THEN Num(v.neg, v.ip \o SubSeq(PadRight(v.fp, MaxOf(Len(v.fp), e)), 1, e),
             SubSeq(v.fp, e + 1, Len(v.fp)))
    ELSE Num(v.neg, SubSeq(v.ip, 1, Len(v.ip) + e),
             SubSeq(PadLeft(v.ip, MaxOf(Len(v.ip), 0 - e)),
                    MaxOf(Len(v.ip), 0 - e) + e + 1, MaxOf(Len(v.ip), 0 - e)) \o v.fp)

\* a double holds no more than 309 integer digits
Rounded[v \in Decimals] == IF Len(v.ip) > 309 THEN Infinity(v.neg) ELSE v

\* the mantissa mant with the exponent digits ed, negated if eneg
WithExponent[mant \in Decimals, eneg \in BOOLEAN, ed \in DigitSeqs] ==
    IF Len(ed) = 0 THEN Rounded[mant]
    ELSE IF Len(ed) > 3 \/ DigitsToNat[ed] > 328
    THEN (IF eneg \/ IsZero(mant) THEN Num(mant.neg, << >>, << >>) ELSE Infinity(mant.neg))
    ELSE Rounded[ShiftExp[mant, IF eneg THEN 0 - DigitsToNat[ed] ELSE DigitsToNat[ed]]]

parseFloat(str) ==
    LET \* the exponent part, if any, at position j
        Exponent[mant \in Decimals, j \in Nat] ==
            LET hasE == j <= Len(str) /\ str[j] \in {"e", "E"}
                esgn == hasE /\ j + 1 <= Len(str) /\ str[j + 1] \in {"+", "-"}
                ei   == IF esgn THEN j + 2 ELSE j + 1
            IN  WithExponent[mant, esgn /\ str[j + 1] = "-",
                             IF hasE
                             THEN StripLeadingZeros(DigitVals(str, ei, DigitRun(str, ei)))
                             ELSE << >>]
        \* n1 integer digits at position i, then n2 fraction digits after a dot
        Mantissa[neg \in BOOLEAN, i \in Nat, n1 \in Nat, dot \in BOOLEAN, n2 \in Nat] ==
            IF n1 + n2 = 0 THEN NaN
            ELSE Exponent[Num(neg, DigitVals(str, i, n1), DigitVals(str, i + n1 + 1, n2)),
                          IF dot THEN i + n1 + 1 + n2 ELSE i + n1]
        Fraction[neg \in BOOLEAN, i \in Nat, n1 \in Nat] ==
            LET dot == i + n1 <= Len(str) /\ str[i + n1] = "."
            IN  Mantissa[neg, i, n1, dot, IF dot THEN DigitRun(str, i + n1 + 1) ELSE 0]
        Unsigned[neg \in BOOLEAN, i \in Nat] ==
            IF Len(str) >= i + 7
               /\ SubSeq(str, i, i + 7) = <<"I", "n", "f", "i", "n", "i", "t", "y">>
            THEN Infinity(neg)
            ELSE Fraction[neg, i, DigitRun(str, i)]
        Signed[b \in Nat] ==
            LET sgn == b <= Len(str) /\ str[b] \in {"+", "-"}
            IN  Unsigned[sgn /\ str[b] = "-", IF sgn THEN b + 1 ELSE b]
        ws == {j \in 1..Len(str) : str[j] \notin WhiteSpace}
    IN  Signed[IF ws = {} THEN Len(str) + 1 ELSE CHOOSE j \in ws : \A x \in ws : j <= x]

(***************************************************************************)
(* CandleSecurityService: form sanitizing and signature screening          *)
(***************************************************************************)
FieldNames == <<"open", "high", "low", "close", "volume">>

\* String(formData.f || '') for each field, then sanitizeNumericInput
sanitizeFormData(data) ==
    [open   |-> sanitizeNumericInput(data.open),
     high   |-> sanitizeNumericInput(data.high),
     low    |-> sanitizeNumericInput(data.low),
     close  |-> sanitizeNumericInput(data.close),
     volume |-> sanitizeNumericInput(data.volume)]

UpperCase == <<"A", "B", "C", "D", "E", "F", "G", "H", "I", "J", "K", "L", "M",
               "N", "O", "P", "Q", "R", "S", "T", "U", "V", "W", "X", "Y", "Z">>

LowerCase == <<"a", "b", "c", "d", "e", "f", "g", "h", "i", "j", "k", "l", "m",
               "n", "o", "p", "q", "r", "s", "t", "u", "v", "w", "x", "y", "z">>

toLowerCase(s) ==
    [i \in 1..Len(s) |->
        IF \E k \in 1..26 : UpperCase[k] = s[i]
        THEN LowerCase[CHOOSE k \in 1..26 : UpperCase[k] = s[i]]
        ELSE s[i]]

RECURSIVE JsonEscape(_)
JsonEscape(s) ==
    IF Len(s) = 0 THEN << >>
    ELSE (IF Head(s) \in {"\"", "\\"} THEN <<"\\", Head(s)>> ELSE <<Head(s)>>)
             \o JsonEscape(Tail(s))

JsonString(s) == <<"\"">> \o JsonEscape(s) \o <<"\"">>

\* JSON.stringify of {open, high, low, close, volume}
JsonStringify(data) ==
    <<"{">> \o JsonString(<<"o", "p", "e", "n">>) \o <<":">> \o JsonString(data.open)
    \o <<",">> \o JsonString(<<"h", "i", "g", "h">>) \o <<":">> \o JsonString(data.high)
    \o <<",">> \o JsonString(<<"l", "o", "w">>) \o <<":">> \o JsonString(data.low)
    \o <<",">> \o JsonString(<<"c", "l", "o", "s", "e">>) \o <<":">> \o JsonString(data.close)
    \o <<",">> \o JsonString(<<"v", "o", "l", "u", "m", "e">>) \o <<":">> \o JsonString(data.volume)
    \o <<"}">>

\* the positions of s where sub starts
Occurrences(s, sub) ==
    {i \in 1..(Len(s) - Len(sub) + 1) : SubSeq(s, i, i + Len(sub) - 1) = sub}

\* /a/
Contains(s, sub) == Occurrences(s, sub) # {}

\* /a.*b/
ContainsThen(s, a, b) ==
    \E i \in Occurrences(s, a) : \E j \in Occurrences(s, b) : j >= i + Len(a)

WordChars == Digits \cup {"_"} \cup {UpperCase[k] : k \in 1..26} \cup {LowerCase[k] : k \in 1..26}

\* /on\w+=/
ContainsHandler(s) ==
    \E i \in Occurrences(s, <<"o", "n">>) :
        \E j \in (i + 3)..Len(s) :
            s[j] = "=" /\ \A x \in (i + 2)..(j - 1) : s[x] \in WordChars

\* the signatures, in the order they are tested; src is pattern.source
suspiciousPatterns ==
    << [src |-> "<script",        a |-> <<"<", "s", "c", "r", "i", "p", "t">>, b |-> << >>],
       [src |-> "javascript:",    a |-> <<"j", "a", "v", "a", "s", "c", "r", "i", "p", "t", ":">>, b |-> << >>],
       [src |-> "on\\w+=",        a |-> << >>, b |-> << >>],
       [src |-> "data:text/html", a |-> <<"d", "a", "t", "a", ":", "t", "e", "x", "t", "/", "h", "t", "m", "l">>, b |-> << >>],
       [src |-> "vbscript:",      a |-> <<"v", "b", "s", "c", "r", "i", "p", "t", ":">>, b |-> << >>],
       [src |-> "<iframe",        a |-> <<"<", "i", "f", "r", "a", "m", "e">>, b |-> << >>],
       [src |-> "<object",        a |-> <<"<", "o", "b", "j", "e", "c", "t">>, b |-> << >>],
       [src |-> "<embed",         a |-> <<"<", "e", "m", "b", "e", "d">>, b |-> << >>],
       [src |-> "SELECT.*FROM",   a |-> <<"s", "e", "l", "e", "c", "t">>, b |-> <<"f", "r", "o", "m">>],
       [src |-> "UNION.*SELECT",  a |-> <<"u", "n", "i", "o", "n">>, b |-> <<"s", "e", "l", "e", "c", "t">>],
       [src |-> "DROP.*TABLE",    a |-> <<"d", "r", "o", "p">>, b |-> <<"t", "a", "b", "l", "e">>],
       [src |-> "INSERT.*INTO",   a |-> <<"i", "n", "s", "e", "r", "t">>, b |-> <<"i", "n", "t", "o">>],
       [src |-> "DELETE.*FROM",   a |-> <<"d", "e", "l", "e", "t", "e">>, b |-> <<"f", "r", "o", "m">>],
       [src |-> "UPDATE.*SET",    a |-> <<"u", "p", "d", "a", "t", "e">>, b |-> <<"s", "e", "t">>] >>

\* pattern.test(dataString), the patterns being case-insensitive
PatternTest(pat, s) ==
    IF pat.src = "on\\w+=" THEN ContainsHandler(s)
    ELSE IF pat.b = << >> THEN Contains(s, pat.a)
    ELSE ContainsThen(s, pat.a, pat.b)

checkForSuspiciousPatterns(data) ==
    LET dataString == toLowerCase(JsonStringify(data))
        hits == {i \in 1..Len(suspiciousPatterns) : PatternTest(suspiciousPatterns[i], dataString)}
        first == CHOOSE i \in hits : \A j \in hits : i <= j
    IN  IF hits # {}
        THEN [passed |-> FALSE, reason |-> "Suspicious pattern detected",
              threat |-> suspiciousPatterns[first].src]
        ELSE [passed |-> TRUE, reason |-> "", threat |-> ""]

(***************************************************************************)
(* CandleSecurityService: rate limiting and numeric sanity                 *)
(***************************************************************************)
RATE_LIMIT_WINDOW == 60000

MAX_REQUESTS_PER_WINDOW == 100

\* generateIdentifier(sessionId): `candle_input_${sessionId || 'anonymous'}`
generateIdentifier(sessionId) ==
    <<"candle_input_", IF sessionId = "" THEN "anonymous" ELSE sessionId>>

\* checkRateLimit: the outcome, for the map rl at time t
RateLimitOpens(rl, identifier, t) ==
    identifier \notin DOMAIN rl \/ t > rl[identifier].resetTime

\* a limiter that compares with <= where the code compares with <
RateLimitPassedInclusive(rl, identifier, t) ==
    RateLimitOpens(rl, identifier, t) \/ rl[identifier].count <= MAX_REQUESTS_PER_WINDOW

RateLimitPassed(rl, identifier, t) ==
    RateLimitOpens(rl, identifier, t) \/ rl[identifier].count < MAX_REQUESTS_PER_WINDOW

\* a limiter that counts the calls it rejects too
RateLimitAfterCounting(rl, identifier, t) ==
    IF RateLimitOpens(rl, identifier, t)
    THEN (identifier :> [count |-> 1, resetTime |-> t + RATE_LIMIT_WINDOW]) @@ rl
    ELSE [rl EXCEPT ![identifier].count = @ + 1]

\* checkRateLimit: the map it leaves
RateLimitAfter(rl, identifier, t) ==
    IF RateLimitOpens(rl, identifier, t)
    THEN (identifier :> [count |-> 1, resetTime |-> t + RATE_LIMIT_WINDOW]) @@ rl
    ELSE IF rl[identifier].count >= MAX_REQUESTS_PER_WINDOW THEN rl
    ELSE [rl EXCEPT ![identifier].count = @ + 1]

checkRateLimit(rl, identifier, t) ==
    IF RateLimitPassed(rl, identifier, t)
    THEN [passed |-> TRUE, reason |-> "", threat |-> ""]
    ELSE [passed |-> FALSE, reason |-> "Rate limit exceeded", threat |-> "RATE_LIMIT"]

\* a cleanup that takes a window for expired at its last instant
cleanupRateLimitMapEarly(rl, t) ==
    [id \in {x \in DOMAIN rl : ~(t >= rl[x].resetTime)} |-> rl[id]]

\* cleanupRateLimitMap: the map without the entries whose window has expired
cleanupRateLimitMap(rl, t) ==
    [id \in {x \in DOMAIN rl : ~(t > rl[x].resetTime)} |-> rl[id]]

\* Number.MAX_SAFE_INTEGER = 9007199254740991
MaxSafeInteger == Num(FALSE, <<9, 0, 0, 7, 1, 9, 9, 2, 5, 4, 7, 4, 0, 9, 9, 1>>, << >>)

Zero == Num(FALSE, << >>, << >>)

RangeFault(value) ==
    IF ~IsFinite(value) THEN "not finite"
    ELSE IF LT(value, Zero) THEN "negative"
    ELSE IF GT(value, MaxSafeInteger) THEN "overflow"
    ELSE IF IsNaN(value) THEN "NaN"
    ELSE ""

RangeThreat(fault) ==
    CASE fault = "not finite" -> "INVALID_NUMBER"
      [] fault = "negative"   -> "NEGATIVE_VALUE"
      [] fault = "overflow"   -> "NUMBER_OVERFLOW"
      [] fault = "NaN"        -> "NAN_VALUE"
      [] OTHER                -> ""

\* parseFloat of each field of a form
ParsedFields(data) ==
    [open   |-> parseFloat(data.open),
     high   |-> parseFloat(data.high),
     low    |-> parseFloat(data.low),
     close  |-> parseFloat(data.close),
     volume |-> parseFloat(data.volume)]

RangeFaults(n) == [i \in 1..5 |-> RangeFault(n[FieldNames[i]])]

\* the for loop returns at the first field, in order, that has a fault
RangeResult(faults) ==
    LET bad == {i \in 1..5 : faults[i] # ""}
        first == CHOOSE i \in bad : \A j \in bad : i <= j
    IN  IF bad # {}
        THEN [passed |-> FALSE,
              reason |-> <<"Invalid", FieldNames[first], "value:", faults[first]>>,
              threat |-> RangeThreat(faults[first])]
        ELSE [passed |-> TRUE, reason |-> << >>, threat |-> ""]

validateNumericRanges(data) == RangeResult(RangeFaults(ParsedFields(data)))

(***************************************************************************)
(* CandleValidationService: CandleFormDataSchema and validateFormData.     *)
(* zod 3: a failed string check or refinement marks the value dirty and    *)
(* the later checks still run; the refinements of the object run unless a  *)
(* field aborted (a wrong type), which five strings never do.              *)
(***************************************************************************)
PRICE_LIMIT == 1000000

VOLUME_LIMIT == 999999999

Issue(field, message, code) == [field |-> field, message |-> message, code |-> code]

\* the issues, in order, of the checks zod runs on one string field;
\* v is parseFloat(val)
FieldIssues(field, val, v) ==
    (IF Len(val) < 1 THEN <<Issue(field, "required", "too_small")>> ELSE << >>)
    \o (IF IsNaN(v) THEN <<Issue(field, "must be a number", "custom")>> ELSE << >>)
    \o (IF ~GT(v, Zero) THEN <<Issue(field, "must be positive", "custom")>> ELSE << >>)
    \o (IF ~LT(v, Nat2Num(IF field = "volume" THEN VOLUME_LIMIT ELSE PRICE_LIMIT))
        THEN <<Issue(field, "too large", "custom")>> ELSE << >>)
    \o (IF field = "volume" /\ ~IsInteger(v)
        THEN <<Issue(field, "must be an integer", "custom")>> ELSE << >>)

\* (d / (sum / 2)) * 100 <= 200 / m, cross-multiplied, with d = high - low and
\* sum = high + low; a division by zero gives an infinity or NaN
SpreadWithin(high, low, d, sum, m) ==
    IF ~IsFinite(high) \/ ~IsFinite(low) THEN FALSE
    ELSE IF IsZero(sum) THEN LT(d, Zero)
    ELSE IF GT(sum, Zero) THEN LE(Times[d, m], sum)
    ELSE GE(Times[d, m], sum)

SpreadPercentAtMost(high, low, m) ==
    SpreadWithin(high, low, Minus(high, low), Plus[high, low], m)

\* a rule 1 that asks the high to reach only one of open and close
HighRuleAboveEither(open, high, close) == GE(high, MathMin(open, close))

\* the four refinements of the object, each run whatever the others found
HighRule(open, high, close) == GE(high, MathMax(open, close))

LowRule(open, low, close) == LE(low, MathMin(open, close))

\* the comparison of high and low the wrong way round
HighLowRuleSwapped(high, low) == GE(low, high)

HighLowRule(high, low) == GE(high, low)

\* refinements that stop at the first one that fails
CrossIssuesFirstOnly(n) ==
    IF ~HighRule(n.open, n.high, n.close)
    THEN <<Issue("high", "high must be >= max(open, close)", "custom")>>
    ELSE IF ~LowRule(n.open, n.low, n.close)
    THEN <<Issue("low", "low must be <= min(open, close)", "custom")>>
    ELSE IF ~HighLowRule(n.high, n.low)
    THEN <<Issue("high", "high must be >= low", "custom")>>
    ELSE IF ~SpreadPercentAtMost(n.high, n.low, 20)
    THEN <<Issue("high", "spread exceeds 10%", "custom")>>
    ELSE << >>

\* n is the parsed form
CrossIssues(n) ==
    (IF ~HighRule(n.open, n.high, n.close)
     THEN <<Issue("high", "high must be >= max(open, close)", "custom")>> ELSE << >>)
    \o (IF ~LowRule(n.open, n.low, n.close)
        THEN <<Issue("low", "low must be <= min(open, close)", "custom")>> ELSE << >>)
    \o (IF ~HighLowRule(n.high, n.low)
        THEN <<Issue("high", "high must be >= low", "custom")>> ELSE << >>)
    \o (IF ~SpreadPercentAtMost(n.high, n.low, 20)
        THEN <<Issue("high", "spread exceeds 10%", "custom")>> ELSE << >>)

FormIssues(data, n) ==
    FieldIssues("open", data.open, n.open) \o FieldIssues("high", data.high, n.high)
    \o FieldIssues("low", data.low, n.low) \o FieldIssues("close", data.close, n.close)
    \o FieldIssues("volume", data.volume, n.volume) \o CrossIssues(n)

\* CandleFormDataSchema.safeParse(data).error.errors (empty on success)
CandleFormDataSchema(data) == FormIssues(data, ParsedFields(data))

Warning(field, message, severity) ==
    [field |-> field, message |-> message, severity |-> severity]

\* the warnings of a form the schema accepts (high + low > 0):
\* spreadPercent < 0.01, volume < 1000, spreadPercent > 5, cross-multiplied
SpreadWarnings(spread, sum, volume) ==
    (IF LT(Times[spread, 20000], sum)
     THEN <<Warning("spread", "very small spread", "medium")>> ELSE << >>)
    \o (IF LT(volume, Nat2Num(1000))
        THEN <<Warning("volume", "low volume", "low")>> ELSE << >>)
    \o (IF GT(Times[spread, 40], sum)
        THEN <<Warning("spread", "large spread", "high")>> ELSE << >>)

FormWarnings(n) == SpreadWarnings(Minus(n.high, n.low), Plus[n.high, n.low], n.volume)

FormResult(errors, warnings) ==
    [isValid  |-> errors = << >>,
     errors   |-> errors,
     warnings |-> IF errors = << >> THEN warnings ELSE << >>]

ValidatedFields(data, n) == FormResult(FormIssues(data, n), FormWarnings(n))

validateFormData(data) == ValidatedFields(data, ParsedFields(data))

(***************************************************************************)
(* CandleValidationService: CandleDataSchema and validateCandleData.       *)
(* z.number() aborts on NaN (invalid_type), and the refinements of the     *)
(* object are skipped when a field aborted.                                *)
(***************************************************************************)
\* the session ids and instants the callers supply; the well-formed ones
SessionA == "11111111-1111-4111-8111-111111111111"

SessionB == "22222222-2222-4222-8222-222222222222"

UuidSessionIds == {SessionA, SessionB}

IsUuid(str) == str \in UuidSessionIds

IsoDatetimes == {"2024-01-01T10:00:00Z"}

IsDatetime(str) == str \in IsoDatetimes

NumberIssues(field, v, integral) ==
    IF IsNaN(v) THEN <<Issue(field, "expected number, received nan", "invalid_type")>>
    ELSE (IF ~GT(v, Zero) THEN <<Issue(field, "must be greater than 0", "too_small")>> ELSE << >>)
         \o (IF integral /\ ~IsInteger(v) /\ IsFinite(v)
             THEN <<Issue(field, "expected integer", "invalid_type")>> ELSE << >>)
         \o (IF ~IsFinite(v) THEN <<Issue(field, "must be finite", "not_finite")>> ELSE << >>)

CandleFieldIssues(c) ==
    (IF ~IsUuid(c.session_id) THEN <<Issue("session_id", "invalid session id", "invalid_string")>> ELSE << >>)
    \o (IF c.candle_index < 0
        THEN <<Issue("candle_index", "candle index must be non-negative", "too_small")>> ELSE << >>)
    \o NumberIssues("open", c.open, FALSE)
    \o NumberIssues("high", c.high, FALSE)
    \o NumberIssues("low", c.low, FALSE)
    \o NumberIssues("close", c.close, FALSE)
    \o NumberIssues("volume", c.volume, TRUE)
    \o (IF ~IsDatetime(c.candle_datetime)
        THEN <<Issue("candle_datetime", "invalid candle date and time", "invalid_string")>> ELSE << >>)
    \o (IF IsNaN(c.spread) THEN <<Issue("spread", "expected number, received nan", "invalid_type")>>
        ELSE IF c.spread # Undefined /\ LT(c.spread, Zero)
             THEN <<Issue("spread", "must be >= 0", "too_small")>>
        ELSE << >>)

CandleAborted(c) ==
    IsNaN(c.open) \/ IsNaN(c.high) \/ IsNaN(c.low) \/ IsNaN(c.close) \/ IsNaN(c.volume)
    \/ IsNaN(c.spread)

CandleRuleIssues(c) ==
    (IF ~(GE(c.high, MathMax(c.open, c.close)) /\ GE(c.high, c.low))
     THEN <<Issue("", "OHLC rules violated: high must be the maximum", "custom")>> ELSE << >>)
    \o (IF ~(LE(c.low, MathMin(c.open, c.close)) /\ LE(c.low, c.high))
        THEN <<Issue("", "OHLC rules violated: low must be the minimum", "custom")>> ELSE << >>)

\* CandleDataSchema.safeParse(candle).error.errors (empty on success)
CandleDataSchema(c) ==
    CandleFieldIssues(c) \o (IF CandleAborted(c) THEN << >> ELSE CandleRuleIssues(c))

CandleResult(errors) == [isValid |-> errors = << >>, errors |-> errors, warnings |-> << >>]

validateCandleData(c) == CandleResult(CandleDataSchema(c))

(***************************************************************************)
(* The forms the callers submit to CandleInputCore                         *)
(***************************************************************************)
SCRIPT == <<"<", "s", "c", "r", "i", "p", "t", ">", "a", "l", "e", "r", "t", "(", "1", ")", "<", "/", "s", "c", "r", "i", "p", "t", ">">>

EmptyForm == [open |-> << >>, high |-> << >>, low |-> << >>, close |-> << >>, volume |-> << >>]

FormGood ==
    [open |-> <<"1", ".", "0", "8", "5", "0">>,
     high |-> <<"1", ".", "0", "8", "7", "0">>,
     low |-> <<"1", ".", "0", "8", "4", "0">>,
     close |-> <<"1", ".", "0", "8", "6", "0">>,
     volume |-> <<"1", "0", "0", "0", "0", "0", "0">>]

FormThin ==
    [open |-> <<"1", ".", "0", "8", "6", "0">>,
     high |-> <<"1", ".", "0", "8", "6", "0">>,
     low |-> <<"1", ".", "0", "8", "6", "0">>,
     close |-> <<"1", ".", "0", "8", "6", "0">>,
     volume |-> <<"5", "0", "0">>]

FormHighBelow == [FormGood EXCEPT !.high = <<"1", ".", "0", "8", "0", "0">>]

FormNegative == [FormGood EXCEPT !.open = <<"-", "1", ".", "0", "8", "5", "0">>]

FormFraction == [FormGood EXCEPT !.volume = <<"1", "0", "0", "0", ".", "5">>]

FormScript == [FormGood EXCEPT !.volume = SCRIPT]

SaveForms == {FormGood, FormThin, FormHighBelow, FormNegative, FormFraction, FormScript, EmptyForm}

(***************************************************************************)
(* State                                                                   *)
(***************************************************************************)
VARIABLES
    now,           \* Date.now(), in milliseconds
    rateLimitMap,  \* CandleSecurityService.rateLimitMap: identifier -> [count, resetTime]
    session,       \* CandleInputCore.session.id
    hasOnSave,     \* whether config.onSave was given
    undoStack,     \* CandleInputCore.undoStack
    redoStack,     \* CandleInputCore.redoStack
    pending,       \* the candles of the save calls suspended at `await this.onSave(candleData)`
    result,        \* what the last call returned (op names the call)
    arg,           \* the argument of the pure function under study
    env,           \* what the callers may supply, fixed for a behaviour
    memo,          \* the results of the pure stages on the forms of env, fixed for a behaviour
    hook,          \* useCandleInputEngine: formData, errors, businessViolations, previousCandlesRef
    indices,       \* CandleIndexService.indices: byId, bySessionId, byTimestamp
    cache,         \* CandleCacheService.cache: key -> entry, in insertion order
    store,         \* useCandleInputStore: formData, candles, operationHistory,
                   \* currentOperationIndex, lastSavedCandle
    records,       \* history variable: the records the index stands for, in order
    opCount,       \* history variable: the number of calls made
    lin,           \* history variable: the longest run of the latest completed history
                   \* operations that begins the scenario save, save, undo, save, undo
    log,           \* history variable: the committed candles in the order of their commits,
                   \* each with whether it is undone
    rlCalls,       \* history variable: identifier -> calls of checkRateLimit in its window
    rlOpened       \* history variable: identifier -> time of the call that opened its window

vars == <<now, rateLimitMap, session, hasOnSave, undoStack, redoStack, pending, result,
          arg, env, memo, hook, indices, cache, store, records, opCount, lin, log,
          rlCalls, rlOpened>>

\* what no call of the core or of the security service touches
fixed == <<arg, env, memo, hook, indices, cache, store, records>>

coreVars == <<session, hasOnSave, undoStack, redoStack, pending, lin, log>>

rlGhost == <<rlCalls, rlOpened>>

(***************************************************************************)
(* The pure stages, evaluated once for every form of a behaviour           *)
(***************************************************************************)
MemoOf(forms, clean) ==
    [sanitized  |-> [data \in forms |-> sanitizeFormData(data)],
     suspicious |-> [data \in clean |-> checkForSuspiciousPatterns(data)],
     ranges     |-> [data \in clean |-> validateNumericRanges(data)],
     validated  |-> [data \in clean |-> validateFormData(data)],
     parsed     |-> [data \in clean |-> ParsedFields(data)]]

Memo(forms) == MemoOf(forms, {sanitizeFormData(data) : data \in forms})

(***************************************************************************)
(* CandleSecurityService.performSecurityCheck                              *)
(***************************************************************************)
\* the user-facing messages of performSecurityCheck
MSG_RATE_LIMIT == "rate limit exceeded, please wait"
MSG_SUSPICIOUS == "suspicious data detected, operation rejected"
MSG_BAD_NUMBERS == "invalid numeric values"

\* performSecurityCheck: the result, for the map rl at time t
performSecurityCheck(data, identifier, rl, t) ==
    LET rateLimitCheck  == checkRateLimit(rl, identifier, t)
        sanitizedData   == memo.sanitized[data]
        suspiciousCheck == memo.suspicious[sanitizedData]
        rangeCheck      == memo.ranges[sanitizedData]
    IN  IF ~rateLimitCheck.passed
        THEN [passed |-> FALSE, sanitizedData |-> EmptyForm, error |-> <<MSG_RATE_LIMIT>>]
        ELSE IF ~suspiciousCheck.passed
        THEN [passed |-> FALSE, sanitizedData |-> EmptyForm, error |-> <<MSG_SUSPICIOUS>>]
        ELSE IF ~rangeCheck.passed
        THEN [passed |-> FALSE, sanitizedData |-> EmptyForm,
              error |-> <<MSG_BAD_NUMBERS>> \o rangeCheck.reason]
        ELSE [passed |-> TRUE, sanitizedData |-> sanitizedData, error |-> << >>]

(***************************************************************************)
(* CandleInputCore: the pure parts of validate and save                    *)
(***************************************************************************)
\* a validate that runs the structural validator after a failed security check as well
\* and reports the errors of both
coreValidateCollect(data, sessionId, rl, t) ==
    LET securityCheck == performSecurityCheck(data, generateIdentifier(sessionId), rl, t)
    IN  IF ~securityCheck.passed
        THEN [isValid  |-> FALSE,
              errors   |-> <<Issue("security", securityCheck.error, "SECURITY_ERROR")>>
                              \o memo.validated[memo.sanitized[data]].errors,
              warnings |-> << >>]
        ELSE memo.validated[securityCheck.sanitizedData]

\* validate(data): the security check first, then the structural validator
coreValidate(data, sessionId, rl, t) ==
    LET securityCheck == performSecurityCheck(data, generateIdentifier(sessionId), rl, t)
    IN  IF ~securityCheck.passed
        THEN [isValid  |-> FALSE,
              errors   |-> <<Issue("security", securityCheck.error, "SECURITY_ERROR")>>,
              warnings |-> << >>]
        ELSE memo.validated[securityCheck.sanitizedData]

\* whether validate(data) reaches CandleValidationService.validateFormData
StructuralValidatorRuns(data, sessionId, rl, t) ==
    performSecurityCheck(data, generateIdentifier(sessionId), rl, t).passed

\* formDataToCandleData; n holds parseFloat of each field
CandleOf(n, sessionId, candleIndex, candleDateTime, t) ==
    [session_id      |-> sessionId,
     candle_index    |-> candleIndex,
     open            |-> n.open,
     high            |-> n.high,
     low             |-> n.low,
     close           |-> n.close,
     volume          |-> n.volume,
     candle_datetime |-> candleDateTime,
     spread          |-> Minus(n.high, n.low),
     created_at      |-> t]

formDataToCandleData(formData, sessionId, candleIndex, candleDateTime, t) ==
    CandleOf(memo.parsed[formData], sessionId, candleIndex, candleDateTime, t)

Messages(errors) == [i \in 1..Len(errors) |-> errors[i].message]

(***************************************************************************)
(* Construction                                                            *)
(***************************************************************************)
MaxOps == 3

MaxPending == 1

MaxTicks == 1

SessionIds == UuidSessionIds \cup {"draft"}

CandleIndexes == {-1, 0}

CandleDateTimes == IsoDatetimes \cup {"yesterday"}

\* the instants the clock stops at: the last instant of a window and the first after it
Instants(n) ==
    {0} \cup {k * (RATE_LIMIT_WINDOW + 1) - 1 : k \in 1..n}
        \cup {k * (RATE_LIMIT_WINDOW + 1) : k \in 1..n}

NoResult == [op |-> "none"]

EmptyMap == [x \in {} |-> 0]

NoHook == [mounted |-> FALSE]

\* initialFormData and initialState of the candle input store
initialFormData == EmptyForm

initialState ==
    [formData |-> initialFormData, candles |-> << >>, operationHistory |-> << >>,
     currentOperationIndex |-> -1, lastSavedCandle |-> << >>]

\* CandleIndexService.indices after clearIndices()
NoIndices == [byId |-> EmptyMap, bySessionId |-> EmptyMap, byTimestamp |-> EmptyMap]

Inputs(forms, indexes, datetimes, sessions, maxOps, maxTicks, track) ==
    [forms |-> forms, indexes |-> indexes, datetimes |-> datetimes, sessions |-> sessions,
     maxOps |-> maxOps, instants |-> Instants(maxTicks), track |-> track,
     onError |-> "returns", shape |-> TRUE]

InitCore ==
    /\ now = 0
    /\ undoStack = << >>
    /\ redoStack = << >>
    /\ pending = << >>
    /\ result = NoResult
    /\ opCount = 0
    /\ lin = << >>
    /\ log = << >>

\* no form is mounted, the index and the validation cache are empty
InitCommon ==
    /\ InitCore
    /\ hook = NoHook
    /\ indices = NoIndices
    /\ cache = << >>
    /\ records = << >>
    /\ store = initialState

\* the rate limiter before any call
InitRateLimiter ==
    /\ rateLimitMap = EmptyMap
    /\ rlCalls = EmptyMap
    /\ rlOpened = EmptyMap

\* the rate limiter after `used` calls at time 0 for the identifier of sessionId
\* (the map is static: earlier cores of the page share it)
InitRateLimiterUsed(sessionId, used) ==
    /\ rateLimitMap = (generateIdentifier(sessionId) :>
                          [count |-> used, resetTime |-> RATE_LIMIT_WINDOW])
    /\ rlCalls = (generateIdentifier(sessionId) :> used)
    /\ rlOpened = (generateIdentifier(sessionId) :> 0)

\* new CandleInputCore({session, onSave, onError})
Init ==
    /\ InitCommon
    /\ env = Inputs(SaveForms, CandleIndexes, CandleDateTimes, SessionIds, MaxOps, 0, FALSE)
    /\ memo = Memo(SaveForms)
    /\ session \in SessionIds
    /\ hasOnSave \in BOOLEAN
    /\ arg = << >>
    /\ \/ InitRateLimiter
       \/ InitRateLimiterUsed(session, MAX_REQUESTS_PER_WINDOW - 1)

(***************************************************************************)
(* The clock and the cleanup timer                                         *)
(***************************************************************************)
Tick ==
    \E t \in env.instants :
        /\ t > now
        /\ now' = t
        /\ UNCHANGED <<rateLimitMap, result, opCount, fixed, coreVars, rlGhost>>

\* setInterval(() => CandleSecurityService.cleanupRateLimitMap(), 5 * 60 * 1000)
Cleanup ==
    /\ rateLimitMap' = cleanupRateLimitMap(rateLimitMap, now)
    /\ rateLimitMap' # rateLimitMap
    /\ UNCHANGED <<now, result, opCount, fixed, coreVars, rlGhost>>

\* the history variables of the rate limiter, after a call for identifier at time t:
\* a window opens with the first call and with the first call after it has expired
RateCalled(identifier, t) ==
    LET opens == identifier \notin DOMAIN rlOpened
                 \/ t > rlOpened[identifier] + RATE_LIMIT_WINDOW
    IN  /\ rlOpened' = IF opens THEN (identifier :> t) @@ rlOpened ELSE rlOpened
        /\ rlCalls' = IF opens THEN (identifier :> 1) @@ rlCalls
                      ELSE [rlCalls EXCEPT ![identifier] = @ + 1]

(***************************************************************************)
(* CandleSecurityService.checkRateLimit, called on its own                 *)
(***************************************************************************)
CheckRateLimit ==
    \E sessionId \in env.sessions :
        /\ opCount < env.maxOps
        /\ opCount' = opCount + 1
        /\ result' = [op |-> "checkRateLimit", identifier |-> generateIdentifier(sessionId),
                      check |-> checkRateLimit(rateLimitMap, generateIdentifier(sessionId), now)]
        /\ rateLimitMap' = RateLimitAfter(rateLimitMap, generateIdentifier(sessionId), now)
        /\ RateCalled(generateIdentifier(sessionId), now)
        /\ UNCHANGED <<now, fixed, coreVars>>

(***************************************************************************)
(* CandleInputCore.validate                                                *)
(***************************************************************************)
Validate ==
    \E data \in env.forms :
        /\ opCount < env.maxOps
        /\ opCount' = opCount + 1
        /\ result' = [op |-> "validate", form |-> data,
                      structural |-> StructuralValidatorRuns(data, session, rateLimitMap, now),
                      outcome |-> coreValidate(data, session, rateLimitMap, now)]
        /\ rateLimitMap' = RateLimitAfter(rateLimitMap, generateIdentifier(session), now)
        /\ RateCalled(generateIdentifier(session), now)
        /\ UNCHANGED <<now, fixed, coreVars>>

(***************************************************************************)
(* CandleInputCore.save.  Steps 1 to 5 decide whether the candle goes to   *)
(* the persistence callback; the call is suspended while onSave runs and   *)
(* resumes when it settles.  previousCandle only feeds a log line (step 4).*)
(***************************************************************************)
SaveOutcome(validationResult, candleData, dataValidation) ==
    IF ~validationResult.isValid
    THEN [kind |-> "invalid", errors |-> Messages(validationResult.errors),
          candle |-> candleData]
    ELSE IF ~dataValidation.isValid
    THEN [kind |-> "badData", errors |-> Messages(dataValidation.errors),
          candle |-> candleData]
    ELSE [kind |-> "persist", errors |-> << >>, candle |-> candleData]

\* a save that skips steps 1 and 5
SaveDecisionUnchecked(data, sessionId, candleIndex, candleDateTime, rl, t) ==
    [kind   |-> "persist", errors |-> << >>,
     candle |-> formDataToCandleData(memo.sanitized[data], sessionId, candleIndex,
                                      candleDateTime, t)]

SaveDecision(data, sessionId, candleIndex, candleDateTime, rl, t) ==
    SaveOutcome(coreValidate(data, sessionId, rl, t),
                formDataToCandleData(memo.sanitized[data], sessionId, candleIndex,
                                     candleDateTime, t),
                validateCandleData(formDataToCandleData(memo.sanitized[data], sessionId,
                                                        candleIndex, candleDateTime, t)))

\* a step 7 that keeps the redo stack, and one that puts the candle under the stack
HistoryAfterSaveKeepRedo(undo, redo, candle) == [undo |-> Append(undo, candle), redo |-> redo]

HistoryAfterSaveUnder(undo, redo, candle) == [undo |-> <<candle>> \o undo, redo |-> << >>]

\* steps 6 and 7 once the candle is persisted: push, and clear the redo stack
HistoryAfterSave(undo, redo, candle) == [undo |-> Append(undo, candle), redo |-> << >>]

\* a save that pushes before it awaits onSave
HistoryAtDispatchEager(undo, redo, candle) == [undo |-> Append(undo, candle), redo |-> << >>]

\* the stacks when onSave is called: nothing is pushed before the await
HistoryAtDispatch(undo, redo, candle) == [undo |-> undo, redo |-> redo]

\* a catch block that takes back the latest record of the undo stack
HistoryAfterFailureRolledBack(undo, redo, candle) ==
    [undo |-> SubSeq(undo, 1, Len(undo) - 1), redo |-> redo]

\* the stacks when onSave rejects: the catch block leaves them alone
HistoryAfterFailure(undo, redo, candle) == [undo |-> undo, redo |-> redo]

\* the history variable lin after the completed operation e
Scenario == <<"save", "save", "undo", "save", "undo">>

BeginsScenario(l) == Len(l) <= Len(Scenario) /\ \A i \in 1..Len(l) : l[i].op = Scenario[i]

Track(l, e) ==
    LET full == Append(l, e)
        fits == {k \in 0..Len(full) : BeginsScenario(SubSeq(full, Len(full) - k + 1, Len(full)))}
        best == CHOOSE k \in fits : \A j \in fits : j <= k
    IN  IF env.track THEN SubSeq(full, Len(full) - best + 1, Len(full)) ELSE << >>

\* the history variable log after a commit, an undo that returned c, a redo that returned c
Committed(l, c) == IF env.track THEN Append(l, [candle |-> c, undone |-> FALSE]) ELSE << >>

LiveEntries(l) == {i \in 1..Len(l) : ~l[i].undone}

Undone(l, c) ==
    LET at == {i \in LiveEntries(l) : l[i].candle = c}
    IN  IF at = {} THEN l
        ELSE [l EXCEPT ![CHOOSE i \in at : \A j \in at : j <= i].undone = TRUE]

Redone(l, c) ==
    LET at == {i \in 1..Len(l) : l[i].undone /\ l[i].candle = c}
    IN  IF at = {} THEN l
        ELSE [l EXCEPT ![CHOOSE i \in at : \A j \in at : i <= j].undone = FALSE]

\* what save returns after it has called this.onError(message), when there is one: the
\* call in the try block is caught by the catch block, which calls onError again, and
\* nothing catches what onError throws there, so that the promise of save rejects
AfterOnError(r) ==
    IF env.onError = "throws" THEN [op |-> "save", kind |-> "threw"] ELSE r

SaveFails(d) ==
    /\ result' = IF d.kind = "invalid"
                 THEN AfterOnError([op |-> "save", success |-> FALSE, errors |-> d.errors,
                                    kind |-> d.kind])
                 ELSE [op |-> "save", success |-> FALSE, errors |-> d.errors, kind |-> d.kind]
    /\ lin' = << >>
    /\ UNCHANGED <<undoStack, redoStack, pending, log>>

SaveCommits(candle) ==
    /\ undoStack' = HistoryAfterSave(undoStack, redoStack, candle).undo
    /\ redoStack' = HistoryAfterSave(undoStack, redoStack, candle).redo
    /\ result' = [op |-> "save", success |-> TRUE, candle |-> candle, errors |-> << >>,
                  kind |-> "saved"]
    /\ lin' = Track(lin, [op |-> "save", candle |-> candle])
    /\ log' = Committed(log, candle)

SaveDispatches(candle) ==
    /\ pending' = Append(pending, candle)
    /\ undoStack' = HistoryAtDispatch(undoStack, redoStack, candle).undo
    /\ redoStack' = HistoryAtDispatch(undoStack, redoStack, candle).redo
    /\ result' = [op |-> "onSave", candle |-> candle]
    /\ UNCHANGED <<lin, log>>

SaveSteps(d) ==
    IF d.kind # "persist" THEN SaveFails(d)
    ELSE IF hasOnSave THEN SaveDispatches(d.candle)
    ELSE SaveCommits(d.candle) /\ UNCHANGED pending

SaveBegin ==
    \E data \in env.forms, candleIndex \in env.indexes, candleDateTime \in env.datetimes :
        /\ opCount < env.maxOps
        /\ Len(pending) < MaxPending
        /\ opCount' = opCount + 1
        /\ rateLimitMap' = RateLimitAfter(rateLimitMap, generateIdentifier(session), now)
        /\ RateCalled(generateIdentifier(session), now)
        /\ SaveSteps(SaveDecision(data, session, candleIndex, candleDateTime,
                                  rateLimitMap, now))
        /\ UNCHANGED <<now, fixed, session, hasOnSave>>

RemoveAt(s, i) == SubSeq(s, 1, i - 1) \o SubSeq(s, i + 1, Len(s))

\* onSave settles and the suspended save resumes: step 7, or the catch block
SaveSettle ==
    \E i \in 1..Len(pending), fulfilled \in BOOLEAN :
        /\ pending' = RemoveAt(pending, i)
        /\ IF fulfilled
           THEN SaveCommits(pending[i])
           ELSE /\ undoStack' = HistoryAfterFailure(undoStack, redoStack, pending[i]).undo
                /\ redoStack' = HistoryAfterFailure(undoStack, redoStack, pending[i]).redo
                /\ result' = AfterOnError([op |-> "save", success |-> FALSE,
                                           errors |-> <<"persist failed">>,
                                           kind |-> "failed"])
                /\ lin' = << >>
                /\ UNCHANGED log
        /\ UNCHANGED <<now, rateLimitMap, fixed, session, hasOnSave, opCount, rlGhost>>

(***************************************************************************)
(* CandleInputCore.undo / redo / clearHistory / updateSession              *)
(***************************************************************************)
\* Array.prototype.shift: the bottom of the stack
PopFront(stack) == [item |-> Head(stack), rest |-> Tail(stack)]

\* Array.prototype.pop on a non-empty stack
Pop(stack) == [item |-> Last(stack), rest |-> Front(stack)]

Undo ==
    /\ opCount < env.maxOps
    /\ opCount' = opCount + 1
    /\ IF undoStack = << >>
       THEN /\ result' = [op |-> "undo", success |-> FALSE, error |-> "nothing to undo"]
            /\ lin' = << >>
            /\ UNCHANGED <<undoStack, redoStack, log>>
       ELSE /\ undoStack' = Pop(undoStack).rest
            /\ redoStack' = Append(redoStack, Pop(undoStack).item)
            /\ result' = [op |-> "undo", success |-> TRUE, candle |-> Pop(undoStack).item]
            /\ lin' = Track(lin, [op |-> "undo", candle |-> Pop(undoStack).item])
            /\ log' = Undone(log, Pop(undoStack).item)
    /\ UNCHANGED <<now, rateLimitMap, fixed, session, hasOnSave, pending, rlGhost>>

Redo ==
    /\ opCount < env.maxOps
    /\ opCount' = opCount + 1
    /\ lin' = << >>
    /\ IF redoStack = << >>
       THEN /\ result' = [op |-> "redo", success |-> FALSE, error |-> "nothing to redo"]
            /\ UNCHANGED <<undoStack, redoStack, log>>
       ELSE /\ redoStack' = Pop(redoStack).rest
            /\ undoStack' = Append(undoStack, Pop(redoStack).item)
            /\ result' = [op |-> "redo", success |-> TRUE, candle |-> Pop(redoStack).item]
            /\ log' = Redone(log, Pop(redoStack).item)
    /\ UNCHANGED <<now, rateLimitMap, fixed, session, hasOnSave, pending, rlGhost>>

ClearHistory ==
    /\ opCount < env.maxOps
    /\ opCount' = opCount + 1
    /\ undoStack' = << >>
    /\ redoStack' = << >>
    /\ result' = [op |-> "clearHistory"]
    /\ lin' = << >>
    /\ log' = << >>
    /\ UNCHANGED <<now, rateLimitMap, fixed, session, hasOnSave, pending, rlGhost>>

\* canUndo() and canRedo()
canUndo(undo) == Len(undo) > 0

canRedo(redo) == Len(redo) > 0

CanUndo ==
    /\ opCount < env.maxOps
    /\ opCount' = opCount + 1
    /\ result' = [op |-> "canUndo", out |-> canUndo(undoStack)]
    /\ UNCHANGED <<now, rateLimitMap, fixed, coreVars, rlGhost>>

CanRedo ==
    /\ opCount < env.maxOps
    /\ opCount' = opCount + 1
    /\ result' = [op |-> "canRedo", out |-> canRedo(redoStack)]
    /\ UNCHANGED <<now, rateLimitMap, fixed, coreVars, rlGhost>>

UpdateSession ==
    \E s \in env.sessions \ {session} :
        /\ opCount < env.maxOps
        /\ opCount' = opCount + 1
        /\ session' = s
        /\ result' = [op |-> "updateSession"]
        /\ UNCHANGED <<now, rateLimitMap, fixed, hasOnSave, undoStack, redoStack, pending,
                       lin, log, rlGhost>>

Next ==
    \/ Validate
    \/ SaveBegin
    \/ SaveSettle
    \/ Undo
    \/ Redo
    \/ ClearHistory
    \/ UpdateSession

Spec == Init /\ [][Next]_vars

(***************************************************************************)
(* The calls of one core whose onError callback returns or throws          *)
(***************************************************************************)
MaxFaultOps == 3

FaultForms == {FormGood, FormHighBelow, EmptyForm}

InitFaults ==
    /\ InitCommon
    /\ InitRateLimiter
    /\ \E onError \in {"returns", "throws"} :
          env = [Inputs(FaultForms, CandleIndexes, IsoDatetimes, {SessionA}, MaxFaultOps,
                        0, FALSE) EXCEPT !.onError = onError]
    /\ memo = Memo(FaultForms)
    /\ session = SessionA
    /\ hasOnSave \in BOOLEAN
    /\ arg = << >>

NextFaults ==
    \/ Validate
    \/ SaveBegin
    \/ SaveSettle
    \/ Undo
    \/ Redo

SpecFaults == InitFaults /\ [][NextFaults]_vars

(***************************************************************************)
(* validate on forms with one defect: a field that is empty or negative    *)
(***************************************************************************)
Negated(str) == <<"-">> \o str

DefectForms ==
    {[FormGood EXCEPT ![FieldNames[i]] = << >>] : i \in 1..5}
    \cup {[FormGood EXCEPT ![FieldNames[i]] = Negated(@)] : i \in 1..5}

FieldForms == DefectForms \cup {FormGood}

InitFields ==
    /\ InitCommon
    /\ env = Inputs(FieldForms, {0}, IsoDatetimes, {SessionA}, MaxOps, 0, FALSE)
    /\ memo = Memo(FieldForms)
    /\ session = SessionA
    /\ hasOnSave = FALSE
    /\ arg = << >>
    /\ \/ InitRateLimiter
       \/ \E left \in 1..MaxOps : InitRateLimiterUsed(session, MAX_REQUESTS_PER_WINDOW - left)

SpecFields == InitFields /\ [][Validate]_vars

(***************************************************************************)
(* The history of one session: saves, undo, redo, clearHistory             *)
(***************************************************************************)
MaxHistoryOps == 5

HistoryForms == {FormGood, FormThin, FormHighBelow}

InitHistory ==
    /\ InitCommon
    /\ InitRateLimiter
    /\ env = Inputs(HistoryForms, {0}, IsoDatetimes, {SessionA}, MaxHistoryOps, 0, TRUE)
    /\ memo = Memo(HistoryForms)
    /\ session = SessionA
    /\ hasOnSave \in BOOLEAN
    /\ arg = << >>

NextHistory ==
    \/ SaveBegin
    \/ SaveSettle
    \/ Undo
    \/ Redo
    \/ ClearHistory

SpecHistory == InitHistory /\ [][NextHistory]_vars

(***************************************************************************)
(* Every call that reads or writes the two stacks of one core              *)
(***************************************************************************)
MaxStackOps == 4

StackForms == {FormGood, FormHighBelow}

InitStacks ==
    /\ InitCommon
    /\ env = Inputs(StackForms, {0}, IsoDatetimes, {SessionA}, MaxStackOps, 0, FALSE)
    /\ memo = Memo(StackForms)
    /\ session = SessionA
    /\ hasOnSave \in BOOLEAN
    /\ arg = << >>
    /\ \/ InitRateLimiter
       \/ InitRateLimiterUsed(session, MAX_REQUESTS_PER_WINDOW - 2)

NextStacks ==
    \/ Validate
    \/ SaveBegin
    \/ SaveSettle
    \/ Undo
    \/ Redo
    \/ ClearHistory
    \/ CanUndo
    \/ CanRedo

SpecStacks == InitStacks /\ [][NextStacks]_vars

(***************************************************************************)
(* A long run of saves                                                     *)
(***************************************************************************)
MaxDepthOps == 51

InitDepth ==
    /\ InitCommon
    /\ InitRateLimiter
    /\ env = Inputs({FormGood}, {0}, IsoDatetimes, {SessionA}, MaxDepthOps, 0, FALSE)
    /\ memo = Memo({FormGood})
    /\ session = SessionA
    /\ hasOnSave \in BOOLEAN
    /\ arg = << >>

NextDepth ==
    \/ SaveBegin
    \/ SaveSettle

SpecDepth == InitDepth /\ [][NextDepth]_vars

(***************************************************************************)
(* The rate limiter on its own, from every count a window can hold         *)
(***************************************************************************)
MaxRateCalls == 3

InitRate ==
    /\ InitCommon
    /\ env = Inputs({}, {}, {}, {"", SessionA}, MaxRateCalls, MaxTicks, FALSE)
    /\ memo = Memo({})
    /\ session = SessionA
    /\ hasOnSave = FALSE
    /\ arg = << >>
    /\ \/ InitRateLimiter
       \/ \E used \in 1..(MAX_REQUESTS_PER_WINDOW - 1) : InitRateLimiterUsed(SessionA, used)

NextRate ==
    \/ CheckRateLimit
    \/ Tick
    \/ Cleanup

SpecRate == InitRate /\ [][NextRate]_vars

(***************************************************************************)
(* sanitizeNumericInput applied twice                                      *)
(***************************************************************************)
MaxLen == 5

MaxIntDigits == 21

MaxFracDigits == 9

Alphabet == {"1", ".", "-", "x"}

ShortInputs == UNION {[1..k -> Alphabet] : k \in 0..MaxLen}

Run(c, n) == [i \in 1..n |-> c]

\* a sign or none, a run of digits, and a dot and a run of digits or none
LongInputs ==
    {sign \o Run("7", i) \o frac :
        sign \in {<< >>, <<"-">>},
        i \in 0..MaxIntDigits,
        frac \in {<< >>} \cup {<<".">> \o Run("3", f) : f \in 0..MaxFracDigits}}

SanitizeInputs == ShortInputs \cup LongInputs

InitPure ==
    /\ InitCommon
    /\ InitRateLimiter
    /\ env = Inputs({}, {}, {}, {SessionA}, 0, 0, FALSE)
    /\ memo = Memo({})
    /\ session = SessionA
    /\ hasOnSave = FALSE

InitSanitize ==
    /\ InitPure
    /\ arg \in SanitizeInputs

SanitizeOnce ==
    /\ result.op = "none"
    /\ result' = [op |-> "sanitize", out |-> sanitizeNumericInput(arg)]
    /\ UNCHANGED <<now, rateLimitMap, opCount, fixed, coreVars, rlGhost>>

SanitizeAgain ==
    /\ result.op = "sanitize"
    /\ result' = [op |-> "sanitizeAgain", first |-> result.out,
                  out |-> sanitizeNumericInput(result.out)]
    /\ UNCHANGED <<now, rateLimitMap, opCount, fixed, coreVars, rlGhost>>

NextSanitize ==
    \/ SanitizeOnce
    \/ SanitizeAgain

SpecSanitize == InitSanitize /\ [][NextSanitize]_vars

(***************************************************************************)
(* CandleValidationService.validateFormData on its own                     *)
(***************************************************************************)
PriceInputs ==
    {<<"1", ".", "0", "8", "4", "0">>, <<"1", ".", "0", "8", "5", "0">>,
     <<"1", ".", "0", "8", "7", "0">>, <<"1", ".", "2", "x">>, <<"-", "1">>, << >>}

VolumeInputs == {<<"1", "0", "0", "0">>, <<"2", ".", "5">>, <<"1", "e", "3">>}

ValidatorForms ==
    [open : PriceInputs, high : PriceInputs, low : PriceInputs, close : PriceInputs,
     volume : VolumeInputs]

\* the forms of the documented scenarios
ScenarioForms == {FormGood, FormHighBelow, FormThin}

InitValidator ==
    /\ InitPure
    /\ arg \in ValidatorForms \cup ScenarioForms

ValidateFormData ==
    /\ result.op = "none"
    /\ result' = [op |-> "validateFormData", outcome |-> validateFormData(arg)]
    /\ UNCHANGED <<now, rateLimitMap, opCount, fixed, coreVars, rlGhost>>

SpecValidator == InitValidator /\ [][ValidateFormData]_vars

(***************************************************************************)
(* CandleBusinessRules: the six checks on the form being edited.  A check  *)
(* returns << >> for null and a one-element sequence for a violation (its  *)
(* message and suggestion are left out).  n holds parseFloat(String(f)) of *)
(* every field f; quotients are compared by cross-multiplication.          *)
(***************************************************************************)
Violation(rule, severity) == [rule |-> rule, severity |-> severity]

Abs(v) == [v EXCEPT !.neg = FALSE]

\* a / d > b / d for finite a and b (x / 0 is an infinity of the sign of x, or NaN)
QuotientGT(a, b, d) ==
    IF GT(d, Zero) THEN GT(a, b)
    ELSE IF LT(d, Zero) THEN LT(a, b)
    ELSE GT(a, Zero) /\ LT(b, Zero)

\* values.slice(-k).reduce((sum, value) => sum + value, 0)
RECURSIVE SumLast(_, _)
SumLast(values, k) ==
    IF k = 0 \/ values = << >> THEN Zero
    ELSE Plus[SumLast(Front(values), k - 1), Last(values)]

PriceGap(gap, prevClose) ==
    IF GT(prevClose, Zero) /\ GT(Times[gap, 100], prevClose)
    THEN <<Violation("PRICE_GAP",
                     IF GT(Times[gap, 100], Times[prevClose, 3]) THEN "error" ELSE "warning")>>
    ELSE << >>

checkPriceGap(n, previousCandles) ==
    IF previousCandles = << >> THEN << >>
    ELSE IF ~IsFinite(n.open) \/ ~IsFinite(Last(previousCandles).close)
            \/ IsZero(Last(previousCandles).close) THEN << >>
    ELSE PriceGap(Abs(Minus(n.open, Last(previousCandles).close)), Last(previousCandles).close)

Ranges(candles) == [i \in 1..Len(candles) |-> Minus(candles[i].high, candles[i].low)]

checkVolatility(n, previousCandles) ==
    IF Len(previousCandles) < 20 THEN << >>
    ELSE IF ~IsFinite(n.high) \/ ~IsFinite(n.low) \/ ~IsFinite(n.open) THEN << >>
    ELSE IF QuotientGT(Times[Minus(n.high, n.low), 20],
                       Times[SumLast(Ranges(previousCandles), 20), 3], n.open)
    THEN <<Violation("ABNORMAL_VOLATILITY", "warning")>>
    ELSE << >>

Volumes(candles) == [i \in 1..Len(candles) |-> candles[i].volume]

DigitChar(d) == CHOOSE c \in Digits : DigitVal(c) = d

\* the next digit of a long division: the largest k with d * k <= r, for 0 <= r < 10 * d
DivDigit[r \in Decimals, d \in Decimals] ==
    CHOOSE k \in 0..9 : GE(r, Times[d, k]) /\ LT(r, Times[d, k + 1])

DivNext(q, r, d, k) == [q |-> q \o <<k>>, r |-> Minus(r, Times[d, k])]

DivBy(q, r, d) == DivNext(q, r, d, DivDigit[r, d])

LongDivStep(prev, digit, d) == DivBy(prev.q, Plus[Times[prev.r, 10], Nat2Num(digit)], d)

\* floor(n / d) and the remainder, for the digits of a natural number n and a natural d > 0
RECURSIVE LongDiv(_, _)
LongDiv(digits, d) ==
    IF digits = << >> THEN [q |-> << >>, r |-> Zero]
    ELSE LongDivStep(LongDiv(Front(digits), d), Last(digits), d)

\* the digits of a number of tenths, with the last one after the decimal point
Tenths(q) ==
    (IF StripLeadingZeros(Front(q)) = << >> THEN <<"0">>
     ELSE [i \in 1..Len(StripLeadingZeros(Front(q))) |->
               DigitChar(StripLeadingZeros(Front(q))[i])])
    \o <<".", DigitChar(Last(q))>>

\* (a / b).toFixed(1) for a, b > 0 with at most f decimals: a / b in tenths, rounded half
\* up, is floor((20 * a + b) / (2 * b)).  The quotient is the exact one, not the double.
PositiveRatio(a, b, f) ==
    Tenths(LongDiv(Scaled(Plus[Times[a, 20], b], f),
                   Unscaled[FALSE, Scaled(Times[b, 2], f), 0]).q)

\* (volume / avgVolume).toFixed(1), where avgVolume is sum / 20, for a finite volume that
\* is not 0 and a sum that is not NaN
RatioToFixed1(volume, sum) ==
    IF IsZero(sum)
    THEN (IF volume.neg THEN <<"-">> ELSE << >>) \o <<"I", "n", "f", "i", "n", "i", "t", "y">>
    ELSE IF ~IsFinite(sum) THEN <<"0", ".", "0">>
    ELSE (IF volume.neg # sum.neg THEN <<"-">> ELSE << >>)
         \o PositiveRatio(Abs(Times[volume, 20]), Abs(sum),
                          MaxOf(Len(volume.fp), Len(sum.fp)))

\* a check that takes ten times the average for the threshold
AbnormalVolumeTenfold(volume, sum) ==
    IF GT(Times[volume, 2], sum)
    THEN <<[rule |-> "ABNORMAL_VOLUME", severity |-> "warning",
            times |-> RatioToFixed1(volume, sum)]>>
    ELSE IF LT(Times[volume, 200], sum) /\ GT(sum, Zero) THEN <<Violation("LOW_VOLUME", "info")>>
    ELSE << >>

\* times is the multiple that the message cites before "x"
AbnormalVolume(volume, sum) ==
    IF GT(Times[volume, 4], sum)
    THEN <<[rule |-> "ABNORMAL_VOLUME", severity |-> "warning",
            times |-> RatioToFixed1(volume, sum)]>>
    ELSE IF LT(Times[volume, 200], sum) /\ GT(sum, Zero) THEN <<Violation("LOW_VOLUME", "info")>>
    ELSE << >>

checkVolume(n, previousCandles) ==
    IF Len(previousCandles) < 20 THEN << >>
    ELSE IF ~IsFinite(n.volume) \/ IsZero(n.volume) THEN << >>
    ELSE AbnormalVolume(n.volume, SumLast(Volumes(previousCandles), 20))

ExtremeWick(body, wicks, totalRange) ==
    IF GT(totalRange, Zero) /\ LT(Times[body, 100], totalRange)
       /\ GT(Times[wicks, 100], Times[totalRange, 95])
    THEN <<Violation("EXTREME_WICK", "info")>>
    ELSE << >>

checkSuspiciousPattern(n) ==
    IF ~IsFinite(n.open) \/ ~IsFinite(n.high) \/ ~IsFinite(n.low) \/ ~IsFinite(n.close)
    THEN << >>
    ELSE IF n.open = n.high /\ n.high = n.low /\ n.low = n.close
    THEN <<Violation("FLAT_CANDLE", "warning")>>
    ELSE ExtremeWick(Abs(Minus(n.close, n.open)),
                     Plus[Minus(n.high, MathMax(n.open, n.close)),
                          Minus(MathMin(n.open, n.close), n.low)],
                     Minus(n.high, n.low))

\* v cut after its second decimal
Hundredths(v) == Num(v.neg, v.ip, SubSeq(v.fp, 1, IF Len(v.fp) < 2 THEN Len(v.fp) ELSE 2))

\* | v - Math.round(v * 100) / 100 | < 0.0001, where rest = | v - Hundredths(v) | and
\* Math.round takes a tie towards plus infinity
NearHundredth(v, rest) ==
    LET half == Num(FALSE, << >>, <<0, 0, 5>>)
        up   == IF v.neg THEN GT(rest, half) ELSE GE(rest, half)
    IN  LT(IF up THEN Minus(Num(FALSE, << >>, <<0, 1>>), rest) ELSE rest,
           Num(FALSE, << >>, <<0, 0, 0, 1>>))

checkRoundNumbers(n) ==
    IF ~IsFinite(n.close) THEN << >>
    ELSE IF NearHundredth(n.close, Abs(Minus(n.close, Hundredths(n.close))))
    THEN <<Violation("ROUND_NUMBER", "info")>>
    ELSE << >>

checkTrendContinuation(n, previousCandles) ==
    LET last5Candles == SubSeq(previousCandles, Len(previousCandles) - 4, Len(previousCandles))
    IN  IF Len(previousCandles) < 5 THEN << >>
        ELSE IF IsNaN(n.close) THEN << >>
        ELSE IF \/ \A i \in 1..5 : GT(last5Candles[i].close, last5Candles[i].open)
                \/ \A i \in 1..5 : LT(last5Candles[i].close, last5Candles[i].open)
        THEN <<Violation("STRONG_TREND", "info")>>
        ELSE << >>

BusinessRules(n, previousCandles) ==
    checkPriceGap(n, previousCandles) \o checkVolatility(n, previousCandles)
    \o checkVolume(n, previousCandles) \o checkSuspiciousPattern(n)
    \o checkRoundNumbers(n) \o checkTrendContinuation(n, previousCandles)

validateBusinessRules(currentCandle, previousCandles) ==
    BusinessRules(ParsedFields(currentCandle), previousCandles)

(***************************************************************************)
(* useCandleInputEngine: the form state of the input hook.  An action is   *)
(* the handler followed by the effect of lines 85-92 that the render after *)
(* it runs.  previousCandle is << >> for undefined.                        *)
(***************************************************************************)
\* Number.prototype.toString of a number written without an exponent
NumberToString(v) ==
    IF IsNaN(v) THEN <<"N", "a", "N">>
    ELSE (IF v.neg /\ ~IsZero(v) THEN <<"-">> ELSE << >>)
         \o (IF ~IsFinite(v) THEN <<"I", "n", "f", "i", "n", "i", "t", "y">>
             ELSE (IF v.ip = << >> THEN <<"0">> ELSE [i \in 1..Len(v.ip) |-> DigitChar(v.ip[i])])
                  \o (IF v.fp = << >> THEN << >>
                      ELSE <<".">> \o [i \in 1..Len(v.fp) |-> DigitChar(v.fp[i])]))

\* value.trim() is the empty string
IsBlank(value) == \A i \in 1..Len(value) : value[i] = " "

\* CandleValidationService.validateField: `CandleFormDataSchema.shape[field]` throws
\* where the refined schema has no shape; otherwise the message of the first issue
validateField(field, value) ==
    IF ~env.shape THEN [threw |-> TRUE]
    ELSE [threw |-> FALSE, issues |-> FieldIssues(field, value, parseFloat(value))]

\* errors after `delete newErrors[field]` and, for a message, `{...prev, [field]: message}`
ErrorsAfter(errors, field, messages) ==
    [k \in (DOMAIN errors \ {field}) \cup (IF messages = << >> THEN {} ELSE {field}) |->
        IF k = field THEN messages[1].message ELSE errors[k]]

\* previousCandlesRef.current = [...previousCandlesRef.current.slice(-49), previousCandle]
Remembered(ref, previousCandle) ==
    IF previousCandle = << >> THEN ref
    ELSE SubSeq(ref, IF Len(ref) > 49 THEN Len(ref) - 48 ELSE 1, Len(ref)) \o previousCandle

\* the effect, run until the form settles, after open changed from `before`
AfterEffect(h, before) ==
    IF h.formData.open = before THEN h
    ELSE IF h.previousCandle # << >> /\ h.formData.open = << >>
            /\ NumberToString(h.previousCandle[1].close) # << >>
    THEN [h EXCEPT !.formData.open = NumberToString(h.previousCandle[1].close),
                   !.previousCandlesRef =
                       Remembered(Remembered(h.previousCandlesRef, h.previousCandle),
                                  h.previousCandle)]
    ELSE [h EXCEPT !.previousCandlesRef = Remembered(h.previousCandlesRef, h.previousCandle)]

\* the hook after its first renders
Mounted(previousCandle, ref) ==
    [mounted |-> TRUE,
     formData |-> [EmptyForm EXCEPT !.open = IF previousCandle = << >> THEN << >>
                                             ELSE NumberToString(previousCandle[1].close)],
     errors |-> EmptyMap,
     businessViolations |-> << >>,
     previousCandle |-> previousCandle,
     previousCandlesRef |-> ref]

UpdatedField(h, field, value, checked) ==
    IF checked.threw
    THEN [h EXCEPT !.formData[field] = value, !.errors = ErrorsAfter(h.errors, field, << >>)]
    ELSE [h EXCEPT !.formData[field] = value,
                   !.errors = ErrorsAfter(h.errors, field, checked.issues),
                   !.businessViolations =
                       validateBusinessRules([h.formData EXCEPT ![field] = value],
                                             h.previousCandlesRef)]

\* what the user types into each field
HookValues ==
    [open   |-> {<< >>, <<"1", ".", "0", "9">>, <<"1", ".", "2">>},
     high   |-> {<< >>, <<"1", ".", "2", "1">>},
     low    |-> {<< >>, <<"1", ".", "1", "9">>},
     close  |-> {<< >>, <<"1", ".", "2">>},
     volume |-> {<< >>, <<"1", "0", "0", "0", "0", "0", "0">>}]

\* updateField(field, value)
UpdateField ==
    \E field \in DOMAIN HookValues : \E value \in HookValues[field] :
        /\ hook.mounted
        /\ opCount < env.maxOps
        /\ hook' = AfterEffect(
                       UpdatedField(hook, field, value,
                                    IF IsBlank(value) THEN [threw |-> FALSE, issues |-> << >>]
                                    ELSE validateField(field, value)),
                       hook.formData.open)
        /\ opCount' = opCount + 1
        /\ result' = [op |-> "updateField", field |-> field]
        /\ UNCHANGED <<now, rateLimitMap, arg, env, memo, store, indices, cache, records, coreVars,
                    rlGhost>>

\* reset()
Reset ==
    /\ hook.mounted
    /\ opCount < env.maxOps
    /\ hook' = AfterEffect(
                   [hook EXCEPT !.formData =
                                    [EmptyForm EXCEPT !.open =
                                        IF hook.previousCandle = << >> THEN << >>
                                        ELSE NumberToString(hook.previousCandle[1].close)],
                                !.errors = EmptyMap],
                   hook.formData.open)
    /\ opCount' = opCount + 1
    /\ result' = [op |-> "reset"]
    /\ UNCHANGED <<now, rateLimitMap, arg, env, memo, store, indices, cache, records, coreVars,
                    rlGhost>>

\* isValid of the hook: the save button is disabled without it
isValid ==
    /\ DOMAIN hook.errors = {}
    /\ \A f \in DOMAIN hook.formData : hook.formData[f] # << >>
    /\ ~\E i \in 1..Len(hook.businessViolations) : hook.businessViolations[i].severity = "error"

\* the latest candle of the session, handed to the hook as previousCandle
PreviousCandle == CandleOf(ParsedFields(FormGood), SessionA, 0, "2024-01-01T10:00:00Z", 0)

Copies(candle, k) == [i \in 1..k |-> candle]

MaxHookOps == 5

\* the hook once mounted: without a previous candle, or with one, which the effect has
\* remembered twice by then and twenty times after nine more edits of open
InitHook ==
    /\ InitCore
    /\ InitRateLimiter
    /\ \E shape \in BOOLEAN :
          env = [Inputs({}, {}, {}, {SessionA}, MaxHookOps, 0, FALSE) EXCEPT !.shape = shape]
    /\ memo = Memo({})
    /\ session = SessionA
    /\ hasOnSave = FALSE
    /\ arg = << >>
    /\ \/ hook = Mounted(<< >>, << >>)
       \/ \E k \in {2, 20} : hook = Mounted(<<PreviousCandle>>, Copies(PreviousCandle, k))
    /\ indices = NoIndices
    /\ cache = << >>
    /\ records = << >>
    /\ store = initialState

NextHook ==
    \/ UpdateField
    \/ Reset

SpecHook == InitHook /\ [][NextHook]_vars

\* the analyzer on its own: the candidate is FormGood with the volume arg.volume, and the
\* history holds arg.count records, the last twenty of them with the volume arg.prior and
\* the ones before with the volume arg.old
CandidateVolumes == {0, 1, 99999, 100000, 1000000, 5000000, 5000001, 6000000}

PriorVolumes == {0, 1000000}

PriorCounts == {0, 19, 20, 21}

RulesInputs ==
    [volume : CandidateVolumes, prior : PriorVolumes, count : PriorCounts,
     old : {1000000, 9000000}]

VolumeForm(v) == [FormGood EXCEPT !.volume = NumberToString(Nat2Num(v))]

VolumeCandle(v) ==
    CandleOf(ParsedFields(VolumeForm(v)), SessionA, 0, "2024-01-01T10:00:00Z", 0)

History(a) ==
    [i \in 1..a.count |-> IF i > a.count - 20 THEN VolumeCandle(a.prior)
                          ELSE VolumeCandle(a.old)]

InitRules ==
    /\ InitPure
    /\ arg \in RulesInputs

ValidateRules ==
    /\ result.op = "none"
    /\ result' = [op |-> "validateBusinessRules",
                  out |-> validateBusinessRules(VolumeForm(arg.volume), History(arg))]
    /\ UNCHANGED <<now, rateLimitMap, opCount, fixed, coreVars, rlGhost>>

SpecRules == InitRules /\ [][ValidateRules]_vars

(***************************************************************************)
(* CandleIndexService: the three static maps.  A candle carries the fields *)
(* the service reads; id is "" for a candle without one.  A bucket of      *)
(* bySessionId is the array the map holds, so a call that changes the      *)
(* array changes the index.                                                *)
(***************************************************************************)
\* new Date(candle_datetime).getTime(), in seconds; -1 stands for NaN
getTime(candle_datetime) ==
    CASE candle_datetime = "2024-01-01T10:00:00Z" -> 1704103200
      [] candle_datetime = "2024-01-01T10:00:00.000Z" -> 1704103200
      [] candle_datetime = "2024-01-01T10:01:00Z" -> 1704103260
      [] OTHER -> -1

Without1(m, k) == [x \in DOMAIN m \ {k} |-> m[x]]

\* the body of the loop of buildIndices, and addCandle, which repeats it
addCandle(ix, candle) ==
    [byId        |-> IF candle.id # "" THEN (candle.id :> candle) @@ ix.byId ELSE ix.byId,
     bySessionId |-> (candle.session_id :>
                         (IF candle.session_id \in DOMAIN ix.bySessionId
                          THEN ix.bySessionId[candle.session_id] ELSE << >>) \o <<candle>>)
                     @@ ix.bySessionId,
     byTimestamp |-> (getTime(candle.candle_datetime) :> candle) @@ ix.byTimestamp]

RECURSIVE IndexAll(_, _)
IndexAll(ix, candles) ==
    IF candles = << >> THEN ix ELSE IndexAll(addCandle(ix, Head(candles)), Tail(candles))

\* clearIndices() and the loop
buildIndices(candles) == IndexAll(NoIndices, candles)

\* sessionCandles.findIndex(c => c.id === candleId), 0 for -1
FindIndex(sessionCandles, candleId) ==
    IF \E i \in 1..Len(sessionCandles) : sessionCandles[i].id = candleId
    THEN CHOOSE i \in 1..Len(sessionCandles) :
             /\ sessionCandles[i].id = candleId
             /\ \A j \in 1..(i - 1) : sessionCandles[j].id # candleId
    ELSE 0

\* sessionCandles.splice(index, 1)
Splice1(sessionCandles, index) ==
    IF index = 0 THEN sessionCandles
    ELSE SubSeq(sessionCandles, 1, index - 1) \o SubSeq(sessionCandles, index + 1, Len(sessionCandles))

Removed(ix, candleId, candle) ==
    [byId        |-> Without1(ix.byId, candleId),
     bySessionId |-> IF candle.session_id \in DOMAIN ix.bySessionId
                     THEN [ix.bySessionId EXCEPT ![candle.session_id] =
                              Splice1(@, FindIndex(@, candleId))]
                     ELSE ix.bySessionId,
     byTimestamp |-> Without1(ix.byTimestamp, getTime(candle.candle_datetime))]

removeCandle(ix, candleId) ==
    IF candleId \notin DOMAIN ix.byId THEN ix ELSE Removed(ix, candleId, ix.byId[candleId])

\* this.indices.bySessionId.get(sessionId) || []
getCandlesBySessionId(ix, sessionId) ==
    IF sessionId \in DOMAIN ix.bySessionId THEN ix.bySessionId[sessionId] ELSE << >>

Filter(s, Keep(_)) ==
    LET F[i \in 0..Len(s)] ==
            IF i = 0 THEN << >> ELSE IF Keep(s[i]) THEN F[i - 1] \o <<s[i]>> ELSE F[i - 1]
    IN  F[Len(s)]

getCandlesInRange(ix, sessionId, startTimestamp, endTimestamp) ==
    LET InRange(candle) ==
            /\ getTime(candle.candle_datetime) # -1
            /\ getTime(candle.candle_datetime) >= startTimestamp
            /\ getTime(candle.candle_datetime) <= endTimestamp
    IN  Filter(getCandlesBySessionId(ix, sessionId), InRange)

getCandlesByIndexRange(ix, sessionId, startIndex, endIndex) ==
    LET InRange(candle) == candle.candle_index >= startIndex /\ candle.candle_index <= endIndex
    IN  Filter(getCandlesBySessionId(ix, sessionId), InRange)

\* Array.prototype.sort((a, b) => b.candle_index - a.candle_index): stable, descending
RECURSIVE SortDescending(_)
SortDescending(s) ==
    IF s = << >> THEN << >>
    ELSE LET rest == SortDescending(Front(s))
             k    == Cardinality({i \in 1..Len(rest) : rest[i].candle_index >= Last(s).candle_index})
         IN  SubSeq(rest, 1, k) \o <<Last(s)>> \o SubSeq(rest, k + 1, Len(rest))

\* the index after getLatestCandles: sort works on the array of the map, in place
SortedBucket(ix, sessionId) ==
    IF sessionId \in DOMAIN ix.bySessionId
    THEN [ix EXCEPT !.bySessionId[sessionId] = SortDescending(@)]
    ELSE ix

getLatestCandles(ix, sessionId, count) ==
    Slice(SortDescending(getCandlesBySessionId(ix, sessionId)), 0, count)

\* the candles of the callers: two of one session at the same instant (written in two
\* ways), one without an id, one of another session
IndexCandle(id, session_id, candle_index, candle_datetime) ==
    [id |-> id, session_id |-> session_id, candle_index |-> candle_index,
     candle_datetime |-> candle_datetime]

IndexCandles ==
    {IndexCandle("c1", SessionA, 1, "2024-01-01T10:00:00Z"),
     IndexCandle("c2", SessionA, 2, "2024-01-01T10:00:00.000Z"),
     IndexCandle("", SessionA, 3, "2024-01-01T10:01:00Z"),
     IndexCandle("c4", SessionB, 1, "2024-01-01T10:01:00Z")}

\* the lists handed to buildIndices: up to two different candles
CandleLists ==
    {<< >>} \cup {<<c>> : c \in IndexCandles}
    \cup {l \in IndexCandles \X IndexCandles : l[1] # l[2]}

CandleIds == {"c1", "c2", "c4", "c9"}

Timestamps == {1704103200, 1704103260}

MaxIndexOps == 4

IndexCall(op, out, ix, recs) ==
    /\ opCount' = opCount + 1
    /\ result' = [op |-> op, out |-> out]
    /\ indices' = ix
    /\ records' = recs
    /\ UNCHANGED <<now, rateLimitMap, arg, env, memo, store, hook, cache, coreVars, rlGhost>>

BuildIndices ==
    /\ opCount < env.maxOps
    /\ \E candles \in CandleLists :
          IndexCall("buildIndices", << >>, buildIndices(candles), candles)

\* a candle is added once, so that ids stay unique
AddCandle ==
    /\ opCount < env.maxOps
    /\ \E candle \in IndexCandles :
          /\ \A i \in 1..Len(records) : records[i] # candle
          /\ IndexCall("addCandle", << >>, addCandle(indices, candle), records \o <<candle>>)

RemoveCandle ==
    /\ opCount < env.maxOps
    /\ \E candleId \in CandleIds :
          LET Others(candle) == candle.id # candleId
          IN  IndexCall("removeCandle", << >>, removeCandle(indices, candleId),
                        Filter(records, Others))

GetCandleById ==
    /\ opCount < env.maxOps
    /\ \E id \in CandleIds :
          IndexCall("getCandleById",
                    IF id \in DOMAIN indices.byId THEN <<indices.byId[id]>> ELSE << >>,
                    indices, records)

GetCandlesBySessionId ==
    /\ opCount < env.maxOps
    /\ \E sessionId \in {SessionA, SessionB} :
          IndexCall("getCandlesBySessionId", getCandlesBySessionId(indices, sessionId),
                    indices, records)

GetCandleByTimestamp ==
    /\ opCount < env.maxOps
    /\ \E timestamp \in Timestamps :
          IndexCall("getCandleByTimestamp",
                    IF timestamp \in DOMAIN indices.byTimestamp
                    THEN <<indices.byTimestamp[timestamp]>> ELSE << >>,
                    indices, records)

GetCandlesInRange ==
    /\ opCount < env.maxOps
    /\ \E sessionId \in {SessionA, SessionB}, startTime \in Timestamps, endTime \in Timestamps :
          IndexCall("getCandlesInRange",
                    getCandlesInRange(indices, sessionId, startTime, endTime), indices, records)

GetCandlesByIndexRange ==
    /\ opCount < env.maxOps
    /\ \E sessionId \in {SessionA, SessionB}, startIndex \in 1..3, endIndex \in 1..3 :
          IndexCall("getCandlesByIndexRange",
                    getCandlesByIndexRange(indices, sessionId, startIndex, endIndex),
                    indices, records)

GetLatestCandles ==
    /\ opCount < env.maxOps
    /\ \E sessionId \in {SessionA, SessionB}, count \in 1..2 :
          IndexCall("getLatestCandles", getLatestCandles(indices, sessionId, count),
                    SortedBucket(indices, sessionId), records)

InitIndex ==
    /\ InitCommon
    /\ InitRateLimiter
    /\ env = Inputs({}, {}, {}, {SessionA}, MaxIndexOps, 0, FALSE)
    /\ memo = Memo({})
    /\ session = SessionA
    /\ hasOnSave = FALSE
    /\ arg = << >>

NextIndexWrites ==
    \/ BuildIndices
    \/ AddCandle
    \/ RemoveCandle

SpecIndexWrites == InitIndex /\ [][NextIndexWrites]_vars

NextIndex ==
    \/ BuildIndices
    \/ AddCandle
    \/ RemoveCandle
    \/ GetCandleById
    \/ GetCandlesBySessionId
    \/ GetCandleByTimestamp
    \/ GetCandlesInRange
    \/ GetCandlesByIndexRange
    \/ GetLatestCandles

SpecIndex == InitIndex /\ [][NextIndex]_vars

(***************************************************************************)
(* CandleCacheService: validationCache is a Map, modelled as the sequence  *)
(* of its entries in insertion order, each carrying its key.  An entry     *)
(* also carries two history fields the code does not have: data, the form  *)
(* its value was stored for, and storedAt, the instant it was stored.      *)
(***************************************************************************)
maxSize == 100

ttl == 300000

\* `${data.open}|${data.high}|${data.low}|${data.close}|${data.volume}`
generateKey(data) ==
    data.open \o <<"|">> \o data.high \o <<"|">> \o data.low \o <<"|">> \o data.close
    \o <<"|">> \o data.volume

\* the position of key in the map, 0 if it has none
KeyIndex(c, key) ==
    IF \E i \in 1..Len(c) : c[i].key = key THEN CHOOSE i \in 1..Len(c) : c[i].key = key ELSE 0

\* Map.delete of the entry at position i
DeleteAt(c, i) == SubSeq(c, 1, i - 1) \o SubSeq(c, i + 1, Len(c))

\* a Map.set that leaves the entry of a present key as it is
MapSetAbsent(c, i, entry) == IF i = 0 THEN Append(c, entry) ELSE c

\* Map.set: a present key keeps its position and takes the new entry
MapSet(c, i, entry) == IF i = 0 THEN Append(c, entry) ELSE [c EXCEPT ![i] = entry]

\* a score that looks at the age of the entry only
ScoreByAge(entry) == entry.timestamp

Score(entry) == entry.accessCount * 1000 + entry.timestamp

\* one round of the loop of evictLRU, at entry i: lru is the position of lruKey, 0 for
\* null, and currentScore is Infinity while lruKey is null
LruNext(c, i, lru) == IF lru = 0 \/ Score(c[i]) < Score(c[lru]) THEN i ELSE lru

\* the rounds of the loop for the entries lo..hi in their order, started with lru: the
\* rounds of the first half and then, with the position m they end with, those of the
\* second half
RECURSIVE LruScan(_, _, _, _)
LruScan(c, lo, hi, lru) ==
    IF lo > hi THEN lru
    ELSE IF lo = hi THEN LruNext(c, lo, lru)
    ELSE CHOOSE r \in {LruScan(c, (lo + hi) \div 2 + 1, hi, m) :
                           m \in {LruScan(c, lo, (lo + hi) \div 2, lru)}} : TRUE

\* this.validationCache.delete(lruKey), if there is one
Evicted(c, lru) == IF lru = 0 THEN c ELSE DeleteAt(c, lru)

evictLRU(c) == Evicted(c, LruScan(c, 1, Len(c), 0))

Stored(c, data, value, t) ==
    MapSet(c, KeyIndex(c, generateKey(data)),
           [key |-> generateKey(data), value |-> value, timestamp |-> t, accessCount |-> 1,
            data |-> data, storedAt |-> t])

\* a setValidation that evicts only once the cache is over its size
setValidationOver(c, data, value, t) ==
    Stored(IF Len(c) > maxSize THEN evictLRU(c) ELSE c, data, value, t)

setValidation(c, data, value, t) ==
    Stored(IF Len(c) >= maxSize THEN evictLRU(c) ELSE c, data, value, t)

\* getValidation: what it returns (<< >> for null) and the map it leaves
Looked(c, i, t) ==
    IF i = 0 THEN [out |-> << >>, cache |-> c]
    ELSE IF t - c[i].timestamp > ttl THEN [out |-> << >>, cache |-> DeleteAt(c, i)]
    ELSE [out |-> <<c[i].value>>,
          cache |-> [c EXCEPT ![i].accessCount = @ + 1, ![i].timestamp = t]]

getValidation(c, data, t) == Looked(c, KeyIndex(c, generateKey(data)), t)

\* the forms of the cache: they differ in their volume
CacheForm(i) ==
    [open |-> <<"1">>, high |-> <<"1">>, low |-> <<"1">>, close |-> <<"1">>,
     volume |-> NumberToString(Nat2Num(i))]

\* the cache after setValidation of the first k forms at instant 0
Filled(k) ==
    [i \in 1..k |-> [key |-> generateKey(CacheForm(i)), value |-> FormResult(<< >>, << >>),
                     timestamp |-> 0, accessCount |-> 1, data |-> CacheForm(i),
                     storedAt |-> 0]]

\* one that the filled cache holds as its oldest entry, one that it does not hold
CacheForms == {CacheForm(1), CacheForm(maxSize + 1)}

Outcomes ==
    {FormResult(<< >>, << >>),
     FormResult(<<Issue("high", "high must be >= low", "custom")>>, << >>)}

MaxCacheOps == 3

SetValidation ==
    /\ opCount < env.maxOps
    /\ \E data \in env.forms, value \in Outcomes :
          /\ cache' = setValidation(cache, data, value, now)
          /\ result' = [op |-> "setValidation", data |-> data, value |-> value, at |-> now,
                        full |-> Len(cache) >= maxSize,
                        known |-> KeyIndex(cache, generateKey(data)) # 0]
    /\ opCount' = opCount + 1
    /\ UNCHANGED <<now, rateLimitMap, arg, env, memo, store, hook, indices, records, coreVars,
                   rlGhost>>

\* result.after is the setValidation call that this call follows, if it follows one, and
\* result.entry the entry the call found for its key, if it found one
GetValidation ==
    /\ opCount < env.maxOps
    /\ \E data \in env.forms :
          /\ cache' = getValidation(cache, data, now).cache
          /\ result' = [op |-> "getValidation", data |-> data, at |-> now,
                        out |-> getValidation(cache, data, now).out,
                        after |-> IF result.op = "setValidation" THEN result ELSE NoResult,
                        entry |-> IF KeyIndex(cache, generateKey(data)) = 0 THEN << >>
                                  ELSE <<cache[KeyIndex(cache, generateKey(data))]>>]
    /\ opCount' = opCount + 1
    /\ UNCHANGED <<now, rateLimitMap, arg, env, memo, store, hook, indices, records, coreVars,
                   rlGhost>>

\* the cache is static: it is empty, one short of full, or full when the calls start
InitCache ==
    /\ InitCore
    /\ InitRateLimiter
    /\ env = [Inputs(CacheForms, {}, {}, {SessionA}, MaxCacheOps, 0, FALSE)
                  EXCEPT !.instants = {0, 1, ttl, ttl + 1}]
    /\ memo = Memo({})
    /\ session = SessionA
    /\ hasOnSave = FALSE
    /\ arg = << >>
    /\ hook = NoHook
    /\ indices = NoIndices
    /\ records = << >>
    /\ store = initialState
    /\ cache \in {Filled(0), Filled(maxSize - 1), Filled(maxSize)}

NextCache ==
    \/ SetValidation
    \/ GetValidation
    \/ Tick

SpecCache == InitCache /\ [][NextCache]_vars

\* two forms that differ in their open and in their high and that generateKey joins to the
\* same string
BarInHigh ==
    [open |-> <<"1">>, high |-> <<"1", "|", "0">>, low |-> <<"1">>, close |-> <<"1">>,
     volume |-> <<"1", "0", "0">>]

BarInOpen ==
    [open |-> <<"1", "|", "1">>, high |-> <<"0">>, low |-> <<"1">>, close |-> <<"1">>,
     volume |-> <<"1", "0", "0">>]

KeyForms == {BarInHigh, BarInOpen, CacheForm(1)}

\* the calls of the cache on forms whose fields hold the character that joins the key
InitCacheKeys ==
    /\ InitCore
    /\ InitRateLimiter
    /\ env = [Inputs(KeyForms, {}, {}, {SessionA}, MaxCacheOps, 0, FALSE)
                  EXCEPT !.instants = {0, 1, ttl, ttl + 1}]
    /\ memo = Memo({})
    /\ session = SessionA
    /\ hasOnSave = FALSE
    /\ arg = << >>
    /\ hook = NoHook
    /\ indices = NoIndices
    /\ records = << >>
    /\ store = initialState
    /\ cache = << >>

SpecCacheKeys == InitCacheKeys /\ [][NextCache]_vars

\* the full cache at the instant ttl, after setValidation of the first form at instant 0, a
\* lookup of it at instant 0, and setValidation of the other forms at the instant ttl
Aged ==
    [i \in 1..maxSize |->
        [key |-> generateKey(CacheForm(i)), value |-> FormResult(<< >>, << >>),
         timestamp |-> IF i = 1 THEN 0 ELSE ttl, accessCount |-> IF i = 1 THEN 2 ELSE 1,
         data |-> CacheForm(i), storedAt |-> IF i = 1 THEN 0 ELSE ttl]]

InitCacheAged ==
    /\ now = ttl
    /\ undoStack = << >>
    /\ redoStack = << >>
    /\ pending = << >>
    /\ result = NoResult
    /\ opCount = 0
    /\ lin = << >>
    /\ log = << >>
    /\ InitRateLimiter
    /\ env = [Inputs(CacheForms \cup {CacheForm(2)}, {}, {}, {SessionA}, MaxCacheOps, 0, FALSE)
                  EXCEPT !.instants = {ttl, ttl + 1, ttl + ttl, ttl + ttl + 1}]
    /\ memo = Memo({})
    /\ session = SessionA
    /\ hasOnSave = FALSE
    /\ arg = << >>
    /\ hook = NoHook
    /\ indices = NoIndices
    /\ records = << >>
    /\ store = initialState
    /\ cache = Aged

SpecCacheAged == InitCacheAged /\ [][NextCache]_vars

(***************************************************************************)
(* CandleAutocompleteService: the candidates for a field.  A candidate is  *)
(* its confidence, a word for its label, and the position at which it was  *)
(* pushed; its value and its reason are left out.  Comparisons of          *)
(* quotients are made by cross-multiplication on the exact decimals.       *)
(***************************************************************************)
Null == [k |-> "null", neg |-> FALSE, ip |-> << >>, fp |-> << >>]

\* formData.f ? parseFloat(formData.f) : null
Entered(str) == IF str = << >> THEN Null ELSE parseFloat(str)

\* the truthy numbers: not null, not NaN, not 0
Truthy(v) == v.k \in {"num", "inf"} /\ ~IsZero(v)

\* v || 0
OrZero(v) == IF Truthy(v) THEN v ELSE Zero

\* null is filtered out of the arguments of Math.min, which is Infinity without arguments
OrInfinity(v) == IF v = Null THEN Infinity(FALSE) ELSE v

Candidate(confidence, label) == [confidence |-> confidence, label |-> label, pushed |-> 0]

\* a candidate with the number that its value formats with toFixed(5)
Valued(confidence, label, value) ==
    [confidence |-> confidence, label |-> label, pushed |-> 0, value |-> value]

\* the candidates in the order of their push
Pushed(s) == [i \in 1..Len(s) |-> [s[i] EXCEPT !.pushed = i]]

\* a sort that moves x over the elements of its own confidence
AheadStrict(sorted, x) == Cardinality({i \in 1..Len(sorted) : sorted[i].confidence > x.confidence})

\* the elements of a sorted list that stay ahead of x: those of a confidence that is not
\* lower, as the comparator b.confidence - a.confidence moves no element over an equal one
Ahead(sorted, x) == Cardinality({i \in 1..Len(sorted) : sorted[i].confidence >= x.confidence})

InsertAt(sorted, x, k) == SubSeq(sorted, 1, k) \o <<x>> \o SubSeq(sorted, k + 1, Len(sorted))

\* suggestions.sort((a, b) => b.confidence - a.confidence)
RECURSIVE SortByConfidence(_)
SortByConfidence(s) ==
    IF s = << >> THEN << >>
    ELSE InsertAt(SortByConfidence(Front(s)), Last(s),
                  Ahead(SortByConfidence(Front(s)), Last(s)))

\* the sum of previousCandles[i].open - previousCandles[i - 1].close for i = 1 .. n - 1
RECURSIVE GapSum(_, _)
GapSum(previous, n) ==
    IF n < 2 THEN Zero
    ELSE Plus[GapSum(previous, n - 1), Minus(previous[n].open, previous[n - 1].close)]

MinOf(a, b) == IF a <= b THEN a ELSE b

\* Math.abs(avgGap) > 0.00001, where avgGap is sum / n
GapMatters(sum, n) == GT(Times[Abs(sum), 100000], Nat2Num(n))

\* lastCandle.close.toFixed(5) throws a TypeError when close is undefined
OpenThrows(previous) == previous # << >> /\ Last(previous).close = Undefined

getSuggestionsForOpen(previous) ==
    IF previous = << >> THEN << >>
    ELSE <<Candidate(90, "previous close")>>
         \o (IF Len(previous) >= 3
                /\ GapMatters(GapSum(previous, MinOf(Len(previous), 10)),
                              MinOf(Len(previous), 10) - 1)
             THEN <<Candidate(60, "average gap")>> ELSE << >>)

ForHigh(open, low, close, previous) ==
    (IF GT(MathMax(OrZero(open), MathMax(OrZero(low), OrZero(close))), Zero)
     THEN <<Valued(80, "lowest admissible",
                   MathMax(OrZero(open), MathMax(OrZero(low), OrZero(close))))>>
     ELSE << >>)
    \o (IF Len(previous) >= 20 /\ Truthy(open) /\ Truthy(low)
        THEN <<Candidate(70, "average range")>> ELSE << >>)

getSuggestionsForHigh(formData, previous) ==
    ForHigh(Entered(formData.open), Entered(formData.low), Entered(formData.close), previous)

ForLow(open, high, close, previous) ==
    (IF GT(MathMin(OrInfinity(open), MathMin(OrInfinity(high), OrInfinity(close))), Zero)
     THEN <<Valued(80, "highest admissible",
                   MathMin(OrInfinity(open), MathMin(OrInfinity(high), OrInfinity(close))))>>
     ELSE << >>)
    \o (IF Len(previous) >= 20 /\ Truthy(high)
        THEN <<Candidate(70, "average range")>> ELSE << >>)

getSuggestionsForLow(formData, previous) ==
    ForLow(Entered(formData.open), Entered(formData.high), Entered(formData.close), previous)

\* previousCandles.slice(-5).filter(c => c.close > c.open).length
BullishCount(previous) ==
    Cardinality({i \in 1..Len(previous) :
                    /\ i > Len(previous) - 5
                    /\ previous[i].close # Undefined
                    /\ GT(previous[i].close, previous[i].open)})

Trend(bullishCount) ==
    IF bullishCount >= 4 THEN <<Candidate(75, "bullish trend")>>
    ELSE IF bullishCount <= 1 THEN <<Candidate(75, "bearish trend")>>
    ELSE << >>

ForClose(open, high, low, previous) ==
    (IF Truthy(open) /\ Truthy(high) /\ Truthy(low)
     THEN <<Candidate(50, "doji"), Candidate(60, "bullish"), Candidate(60, "bearish")>>
     ELSE << >>)
    \o (IF Len(previous) >= 5 /\ Truthy(open) /\ Truthy(high) /\ Truthy(low)
        THEN Trend(BullishCount(previous)) ELSE << >>)

getSuggestionsForClose(formData, previous) ==
    SortByConfidence(Pushed(ForClose(Entered(formData.open), Entered(formData.high),
                                     Entered(formData.low), previous)))

getSuggestionsForVolume(previous) ==
    IF previous = << >> THEN << >>
    ELSE SortByConfidence(Pushed(
             <<Candidate(70, "previous volume")>>
             \o (IF Len(previous) >= 20 THEN <<Candidate(85, "average volume")>> ELSE << >>)
             \o (IF Len(previous) >= 10 THEN <<Candidate(80, "median volume")>> ELSE << >>)))

\* getSuggestions: the catch returns [] for what a case throws
getSuggestions(field, formData, previous) ==
    CASE field = "open"   -> IF OpenThrows(previous) THEN << >>
                             ELSE Pushed(getSuggestionsForOpen(previous))
      [] field = "high"   -> Pushed(getSuggestionsForHigh(formData, previous))
      [] field = "low"    -> Pushed(getSuggestionsForLow(formData, previous))
      [] field = "close"  -> getSuggestionsForClose(formData, previous)
      [] field = "volume" -> getSuggestionsForVolume(previous)
      [] OTHER            -> << >>

\* the partial forms: a field is empty or holds one of a few strings
PartialForms ==
    [open   : {<< >>, <<"1", ".", "2">>, <<"0">>},
     high   : {<< >>, <<"1", ".", "3">>},
     low    : {<< >>, <<"1", ".", "1">>, <<"x">>},
     close  : {<< >>, <<"1", ".", "2", "5">>},
     volume : {<< >>}]

Bullish == CandleOf(ParsedFields(FormGood), SessionA, 0, "2024-01-01T10:00:00Z", 0)

Bearish == [Bullish EXCEPT !.open = Bullish.close, !.close = Bullish.open]

\* the history windows: n candles that are all bullish, all bearish, in turn bullish and
\* bearish, or bullish with the last one short of its close
HistoryKinds == {"bullish", "bearish", "mixed", "broken"}

HistoryLengths == {0, 1, 3, 5, 10, 20}

Window(kind, n) ==
    [i \in 1..n |->
        CASE kind = "bullish" -> Bullish
          [] kind = "bearish" -> Bearish
          [] kind = "mixed"   -> IF i % 2 = 1 THEN Bullish ELSE Bearish
          [] OTHER            -> IF i = n THEN [Bullish EXCEPT !.close = Undefined]
                                 ELSE Bullish]

SuggestInputs ==
    [field : {"open", "high", "low", "close", "volume"}, formData : PartialForms,
     kind : HistoryKinds, length : HistoryLengths]

InitSuggest ==
    /\ InitPure
    /\ arg \in SuggestInputs

GetSuggestions ==
    /\ result.op = "none"
    /\ result' = [op |-> "getSuggestions", threw |-> FALSE,
                  out |-> getSuggestions(arg.field, arg.formData,
                                         Window(arg.kind, arg.length))]
    /\ UNCHANGED <<now, rateLimitMap, opCount, fixed, coreVars, rlGhost>>

SpecSuggest == InitSuggest /\ [][GetSuggestions]_vars

(***************************************************************************)
(* CandleImportExportService.parseCSV and parseJSON.  The content is the   *)
(* sequence of its rows; a row is its fields after split and trim (fields  *)
(* of them are present), a JSON item holds the same fields.  The result    *)
(* keeps the numbers of the rows that were accepted and of those that were *)
(* not, in place of the messages.                                          *)
(***************************************************************************)
\* parseInt of a string without sign: its leading digits (-1 stands for NaN)
ParseInt(str) ==
    IF DigitRun(str, 1) = 0 THEN -1 ELSE DigitsToNat[DigitVals(str, 1, DigitRun(str, 1))]

Row(index, form, spread, fields) ==
    [index |-> index, datetime |-> "2024-01-01T10:00:00Z", open |-> form.open,
     high |-> form.high, low |-> form.low, close |-> form.close, volume |-> form.volume,
     spread |-> spread, fields |-> fields]

\* the candleData that both parsers build from a row
ImportedCandle(row, sessionId) ==
    [session_id      |-> sessionId,
     candle_index    |-> ParseInt(row.index),
     candle_datetime |-> row.datetime,
     open            |-> parseFloat(row.open),
     high            |-> parseFloat(row.high),
     low             |-> parseFloat(row.low),
     close           |-> parseFloat(row.close),
     volume          |-> parseFloat(row.volume),
     spread          |-> IF row.fields >= 8 /\ row.spread # << >> THEN parseFloat(row.spread)
                         ELSE Undefined]

ImportResult(rows, accepted, rejected, total) ==
    [success |-> rejected = << >>,
     candles |-> [i \in 1..Len(accepted) |-> accepted[i].candle],
     rows    |-> [i \in 1..Len(accepted) |-> rows[accepted[i].line]],
     errors  |-> rejected,
     stats   |-> [total |-> total, valid |-> Len(accepted), invalid |-> Len(rejected)]]

\* the loop: a row of fewer than least fields is an error, and so is a candle that
\* validateCandleData finds invalid
RECURSIVE ImportLoop(_, _, _, _, _, _)
ImportLoop(rows, sessionId, i, least, accepted, rejected) ==
    IF i > Len(rows) THEN [accepted |-> accepted, rejected |-> rejected]
    ELSE IF rows[i].fields >= least
            /\ validateCandleData(ImportedCandle(rows[i], sessionId)).isValid
    THEN ImportLoop(rows, sessionId, i + 1, least,
                    Append(accepted, [line |-> i,
                                      candle |-> ImportedCandle(rows[i], sessionId)]),
                    rejected)
    ELSE ImportLoop(rows, sessionId, i + 1, least, accepted, Append(rejected, i))

Imported(rows, loop, total) == ImportResult(rows, loop.accepted, loop.rejected, total)

\* parseCSV: the first line is skipped when hasHeader is not false
parseCSV(rows, sessionId, hasHeader) ==
    Imported(rows,
             ImportLoop(rows, sessionId, IF hasHeader THEN 2 ELSE 1, 7, << >>, << >>),
             Len(rows) - (IF hasHeader THEN 1 ELSE 0))

\* parseJSON: a field that an item lacks is undefined, and parseFloat(undefined) is NaN,
\* so that the item is invalid
parseJSON(rows, sessionId) ==
    Imported(rows, ImportLoop(rows, sessionId, 1, 7, << >>, << >>), Len(rows))

\* a candle of a spread of two thirds, one at the upper bound of the prices, and one at the
\* upper bound of the volume
FormWide ==
    [open |-> <<"1", ".", "5">>, high |-> <<"2">>, low |-> <<"1">>, close |-> <<"1", ".", "5">>,
     volume |-> <<"1", "0", "0", "0">>]

FormPriceBound ==
    [open   |-> <<"1", "0", "0", "0", "0", "0", "0">>,
     high   |-> <<"1", "0", "0", "0", "0", "0", "0">>,
     low    |-> <<"1", "0", "0", "0", "0", "0", "0">>,
     close  |-> <<"1", "0", "0", "0", "0", "0", "0">>,
     volume |-> <<"1", "0", "0", "0">>]

FormVolumeBound == [FormGood EXCEPT !.volume = <<"9", "9", "9", "9", "9", "9", "9", "9", "9">>]

ImportRows ==
    {Row(<<"0">>, form, << >>, 7) :
        form \in {FormGood, FormHighBelow, FormFraction, FormScript, FormWide, FormPriceBound,
                  FormVolumeBound}}
    \cup {Row(<<"1">>, FormGood, <<"0", ".", "0", "0", "3">>, 8),
          Row(<<"x">>, FormGood, << >>, 7),
          Row(<<"2">>, FormGood, << >>, 6)}

MaxRows == 2

ImportContents == UNION {[1..n -> ImportRows] : n \in 1..MaxRows}

InitImport ==
    /\ InitPure
    /\ arg \in [rows : ImportContents, hasHeader : BOOLEAN]

ParseCSV ==
    /\ result.op = "none"
    /\ result' = [op |-> "parseCSV", out |-> parseCSV(arg.rows, SessionA, arg.hasHeader)]
    /\ UNCHANGED <<now, rateLimitMap, opCount, fixed, coreVars, rlGhost>>

ParseJSON ==
    /\ result.op = "none"
    /\ result' = [op |-> "parseJSON", out |-> parseJSON(arg.rows, SessionA)]
    /\ UNCHANGED <<now, rateLimitMap, opCount, fixed, coreVars, rlGhost>>

NextImport ==
    \/ ParseCSV
    \/ ParseJSON

SpecImport == InitImport /\ [][NextImport]_vars

(***************************************************************************)
(* The candle input store                                                  *)
(***************************************************************************)
\* the operations recordOperation keeps
HistoryLimit == 50

Operation(type, candle, timestamp) ==
    [type |-> type, candle |-> candle, timestamp |-> timestamp, sessionId |-> candle.session_id]

\* newHistory after `if (newHistory.length > 50) newHistory.shift()`
Limited(newHistory) == IF Len(newHistory) > HistoryLimit THEN Tail(newHistory) ELSE newHistory

Recorded(state, newHistory) ==
    [state EXCEPT !.operationHistory = newHistory,
                  !.currentOperationIndex = Len(newHistory) - 1]

\* recordOperation without the limit on the history
recordOperationUnlimited(state, operation) ==
    Recorded(state,
             Append(Slice(state.operationHistory, 0, state.currentOperationIndex + 1),
                    operation))

\* recordOperation(operation)
recordOperation(state, operation) ==
    Recorded(state,
             Limited(Append(Slice(state.operationHistory, 0, state.currentOperationIndex + 1),
                            operation)))

\* addCandle(candle) at time t
storeAddCandle(state, candle, t) ==
    recordOperation([state EXCEPT !.candles = Append(@, candle),
                                  !.lastSavedCandle = <<candle>>,
                                  !.formData = [initialFormData EXCEPT
                                                   !.open = NumberToString(candle.close)]],
                    Operation("add", candle, t))

\* state.candles.find(c => c.id === candleId): the position, 0 when there is none
FindCandle(candles, candleId) ==
    IF \E i \in 1..Len(candles) : candles[i].id = candleId
    THEN CHOOSE i \in 1..Len(candles) :
             /\ candles[i].id = candleId
             /\ \A j \in 1..(i - 1) : candles[j].id # candleId
    ELSE 0

RemovedFromStore(state, candleId, candle, t) ==
    recordOperation([state EXCEPT !.candles = Filter(@, LAMBDA c : c.id # candleId)],
                    Operation("remove", candle, t))

\* removeCandle(candleId) at time t
storeRemoveCandle(state, candleId, t) ==
    IF FindCandle(state.candles, candleId) = 0 THEN state
    ELSE RemovedFromStore(state, candleId, state.candles[FindCandle(state.candles, candleId)], t)

StoreCandle(id, close) ==
    [id |-> id, session_id |-> SessionA, candle_index |-> 0, close |-> parseFloat(close)]

StoreCandles ==
    {StoreCandle("c1", <<"1", ".", "0", "8", "6", "0">>),
     StoreCandle("c2", <<"1", ".", "0", "8", "7", "5">>)}

\* the history after n calls recordOperation({type: 'update', candle, timestamp: i})
Prefilled(n) ==
    [initialState EXCEPT
        !.operationHistory =
            [i \in 1..n |->
                Operation("update", StoreCandle("c1", <<"1", ".", "0", "8", "6", "0">>), i)],
        !.currentOperationIndex = n - 1]

Prefills == {0, HistoryLimit - 2, HistoryLimit - 1, HistoryLimit}

MaxStoreOps == 3

StoreCall(op, recorded, after) ==
    /\ opCount' = opCount + 1
    /\ result' = [op |-> op, recorded |-> recorded]
    /\ store' = after
    /\ UNCHANGED <<now, rateLimitMap, arg, env, memo, hook, indices, cache, records, coreVars,
                    rlGhost>>

StoreAddCandle ==
    /\ opCount < env.maxOps
    /\ \E candle \in StoreCandles :
          StoreCall("addCandle", <<Operation("add", candle, now)>>,
                    storeAddCandle(store, candle, now))

StoreRemoveCandle ==
    /\ opCount < env.maxOps
    /\ \E candleId \in {"c1", "c2"} :
          StoreCall("removeCandle",
                    IF FindCandle(store.candles, candleId) = 0 THEN << >>
                    ELSE <<Operation("remove",
                                     store.candles[FindCandle(store.candles, candleId)], now)>>,
                    storeRemoveCandle(store, candleId, now))

RecordOperation ==
    /\ opCount < env.maxOps
    /\ \E type \in {"add", "remove", "update"}, candle \in StoreCandles :
          StoreCall("recordOperation", <<Operation(type, candle, now)>>,
                    recordOperation(store, Operation(type, candle, now)))

\* reset()
StoreReset ==
    /\ opCount < env.maxOps
    /\ StoreCall("reset", << >>, initialState)

InitStore ==
    /\ InitCore
    /\ InitRateLimiter
    /\ env = Inputs({}, {}, {}, {SessionA}, MaxStoreOps, 0, FALSE)
    /\ memo = Memo({})
    /\ session = SessionA
    /\ hasOnSave = FALSE
    /\ arg = << >>
    /\ hook = NoHook
    /\ indices = NoIndices
    /\ cache = << >>
    /\ records = << >>
    /\ store \in {Prefilled(n) : n \in Prefills}

NextStore ==
    \/ StoreAddCandle
    \/ StoreRemoveCandle
    \/ RecordOperation
    \/ StoreReset

SpecStore == InitStore /\ [][NextStore]_vars

(***************************************************************************)
(* Properties                                                              *)
(***************************************************************************)
\* the steps of the calls
SaveReturns == result'.op = "save" /\ (opCount' # opCount \/ pending' # pending)

SaveDispatched == result'.op = "onSave" /\ opCount' # opCount

SaveRejected == SaveReturns /\ result'.kind = "failed"

UndoReturns == result'.op = "undo" /\ opCount' # opCount

RedoReturns == result'.op = "redo" /\ opCount' # opCount

IsPrefix(s, t) == Len(s) <= Len(t) /\ SubSeq(t, 1, Len(s)) = s

\* a candle with finite positive prices, a positive integer volume, the high on top
\* and the low at the bottom
OhlcValid(c) ==
    /\ \A v \in {c.open, c.high, c.low, c.close, c.volume} : IsFinite(v) /\ GT(v, Zero)
    /\ IsInteger(c.volume)
    /\ GE(c.high, MathMax(c.open, c.close))
    /\ LE(c.low, MathMin(c.open, c.close))
    /\ GE(c.high, c.low)

\* C1: every candle that save hands to onSave is OHLC-valid, with positive prices and a
\* positive integer volume, whatever the form and whatever calls came before
C1_HandedCandlesValid ==
    /\ \A i \in 1..Len(pending) : OhlcValid(pending[i])
    /\ result.op = "onSave" => OhlcValid(result.candle)

C1_Witness == result.op = "onSave" /\ pending # << >> /\ opCount > 1

Ordered(n) ==
    /\ GE(n.high, n.open)
    /\ GE(n.high, n.close)
    /\ GE(n.high, n.low)
    /\ LE(n.low, n.open)
    /\ LE(n.low, n.close)

\* C2: when validateFormData returns isValid = true, the parsed values satisfy
\* high >= open, high >= close, high >= low, low <= open and low <= close
C2_AcceptedFormsOrdered ==
    (result.op = "validateFormData" /\ result.outcome.isValid) => Ordered(ParsedFields(arg))

C2_Witness ==
    result.op = "validateFormData" /\ result.outcome.isValid /\ arg.high # arg.low

LatestLive(l) == CHOOSE i \in LiveEntries(l) : \A j \in LiveEntries(l) : j <= i

\* C4: after save(A), save(B), undo(), save(C) the redo stack is empty and C is on top of
\* the undo stack, and the undo that follows returns C; every successful undo returns
\* the candle committed last among those not undone
C4_HistoryLinearity ==
    /\ [](Len(lin) = 4 =>
            redoStack = << >> /\ undoStack # << >> /\ Last(undoStack) = lin[4].candle)
    /\ [](Len(lin) = 5 => lin[5].candle = lin[4].candle)
    /\ [][(UndoReturns /\ result'.success) =>
            LiveEntries(log) # {} /\ result'.candle = log[LatestLive(log)].candle]_vars

C4_Witness == Len(lin) = 5 /\ lin[4].candle # lin[2].candle /\ lin[5].candle = lin[4].candle

\* the depth the history is documented to keep
MAX_HISTORY_DEPTH == 50

\* C5: the undo stack never holds more than 50 candles
C5_UndoDepthBounded == Len(undoStack) <= MAX_HISTORY_DEPTH

\* C6: undo on an empty undo stack and redo on an empty redo stack return a failure and
\* leave both stacks as they were; otherwise undo moves the top of the undo stack onto
\* the redo stack, redo moves the top of the redo stack onto the undo stack, and each
\* returns the candle it moved
C6_UndoRedoMoveTop ==
    [][/\ UndoReturns =>
            IF undoStack = << >>
            THEN ~result'.success /\ undoStack' = undoStack /\ redoStack' = redoStack
            ELSE /\ result'.success
                 /\ result'.candle = Last(undoStack)
                 /\ undoStack' = Front(undoStack)
                 /\ redoStack' = Append(redoStack, Last(undoStack))
       /\ RedoReturns =>
            IF redoStack = << >>
            THEN ~result'.success /\ undoStack' = undoStack /\ redoStack' = redoStack
            ELSE /\ result'.success
                 /\ result'.candle = Last(redoStack)
                 /\ redoStack' = Front(redoStack)
                 /\ undoStack' = Append(undoStack, Last(redoStack))]_vars

C6_Witness ==
    result.op = "undo" /\ ~result.success /\ undoStack = << >> /\ Len(redoStack) > 1

\* C7: every successful save leaves the redo stack empty, and only a successful undo
\* puts a candle on it: any other step leaves it as it was or removes from its top
C7_RedoOnlyAfterUndo ==
    [][/\ (SaveReturns /\ result'.success) => redoStack' = << >>
       /\ ~IsPrefix(redoStack', redoStack) => (UndoReturns /\ result'.success)]_vars

C7_Witness ==
    result.op = "save" /\ result.success /\ redoStack = << >>
        /\ \E i \in 1..Len(log) : log[i].undone

\* C8: for each identifier, the calls 1 to 100 of a window pass, the calls from the
\* 101st on fail with the rate-limit reason, and the first call after the window has
\* expired passes and sets the counter to 1
C8_RateLimitBoundary ==
    result.op = "checkRateLimit" =>
        /\ result.check.passed <=> rlCalls[result.identifier] <= MAX_REQUESTS_PER_WINDOW
        /\ ~result.check.passed =>
              result.check.reason = "Rate limit exceeded" /\ result.check.threat = "RATE_LIMIT"
        /\ result.identifier \in DOMAIN rateLimitMap =>
              /\ rlCalls[result.identifier] <= MAX_REQUESTS_PER_WINDOW =>
                    rateLimitMap[result.identifier].count = rlCalls[result.identifier]
              /\ rlCalls[result.identifier] > MAX_REQUESTS_PER_WINDOW =>
                    rateLimitMap[result.identifier].count = MAX_REQUESTS_PER_WINDOW
              /\ rateLimitMap[result.identifier].resetTime =
                    rlOpened[result.identifier] + RATE_LIMIT_WINDOW

C8_Witness ==
    /\ result.op = "checkRateLimit"
    /\ ~result.check.passed
    /\ rlCalls[result.identifier] = MAX_REQUESTS_PER_WINDOW + 1

HasScript(data) == \E i \in 1..Len(FieldNames) : data[FieldNames[i]] = SCRIPT

\* C9: validate rejects a form with a field "<script>alert(1)</script>" as a security
\* error of the threat screener, and the structural validator does not run on it
C9_ScriptRejected ==
    (result.op = "validate" /\ HasScript(result.form)) =>
        /\ ~result.outcome.isValid
        /\ result.outcome.errors[1].code = "SECURITY_ERROR"
        /\ ~result.structural

\* C10: sanitizeNumericInput(sanitizeNumericInput(x)) = sanitizeNumericInput(x)
C10_SanitizeIdempotent == result.op = "sanitizeAgain" => result.out = result.first

C10_Witness ==
    /\ result.op = "sanitizeAgain"
    /\ result.first # arg
    /\ CountOf(arg, ".") > 1
    /\ CountOf(arg, "-") > 1

\* the characters after the decimal point
DecimalPlaces(s) == IF IndexOf(s, ".") = 0 THEN 0 ELSE Len(s) - IndexOf(s, ".")

\* C11: the output of sanitizeNumericInput holds only digits, at most one decimal point
\* and at most one minus sign, which is its first character; it has at most 8 characters
\* after the decimal point and at most 20 in all; every input string has an output
C11_SanitizedShape ==
    result.op = "sanitize" =>
        /\ result.out \in Seq(Digits \cup {".", "-"})
        /\ CountOf(result.out, ".") <= 1
        /\ CountOf(result.out, "-") <= 1
        /\ \A i \in 2..Len(result.out) : result.out[i] # "-"
        /\ DecimalPlaces(result.out) <= MAX_DECIMALS
        /\ Len(result.out) <= MAX_LENGTH

C11_Witness ==
    /\ result.op = "sanitize"
    /\ Len(arg) > MAX_LENGTH
    /\ Len(result.out) = MAX_LENGTH
    /\ StartsWith(result.out, "-")

\* the reason of the first security sub-check that fails for the form data on the
\* calls-th call of its window: rate limit, then signatures, then numeric sanity
FirstSecurityFault(data, calls) ==
    IF calls > MAX_REQUESTS_PER_WINDOW THEN <<MSG_RATE_LIMIT>>
    ELSE IF ~memo.suspicious[memo.sanitized[data]].passed THEN <<MSG_SUSPICIOUS>>
    ELSE IF ~memo.ranges[memo.sanitized[data]].passed
    THEN <<MSG_BAD_NUMBERS>> \o memo.ranges[memo.sanitized[data]].reason
    ELSE << >>

SecurityShortCircuits(r, fault) ==
    IF fault = << >> THEN r.structural
    ELSE /\ ~r.structural
         /\ r.outcome = [isValid  |-> FALSE,
                         errors   |-> <<Issue("security", fault, "SECURITY_ERROR")>>,
                         warnings |-> << >>]

\* C12: when a security sub-check fails, validate returns isValid = false with the one
\* error (field security, code SECURITY_ERROR) of the first failing sub-check and no
\* warnings, and the structural validator does not run
C12_SecurityShortCircuits ==
    result.op = "validate" =>
        SecurityShortCircuits(result,
            FirstSecurityFault(result.form, rlCalls[generateIdentifier(session)]))

C12_Witness ==
    /\ result.op = "validate"
    /\ result.form = EmptyForm
    /\ rlCalls[generateIdentifier(session)] > MAX_REQUESTS_PER_WINDOW
    /\ result.outcome.errors = <<Issue("security", <<MSG_RATE_LIMIT>>, "SECURITY_ERROR")>>

\* every per-field rule passes: the five fields are positive numbers below their
\* limits, and the volume is an integer
PerFieldRulesPass(n) ==
    /\ \A f \in {"open", "high", "low", "close"} :
            GT(n[f], Zero) /\ LT(n[f], Nat2Num(PRICE_LIMIT))
    /\ GT(n.volume, Zero) /\ LT(n.volume, Nat2Num(VOLUME_LIMIT)) /\ IsInteger(n.volume)

\* one error for each cross-field rule the parsed form n violates, in rule order
ViolatedCrossRules(n) ==
    (IF LT(n.high, n.open) \/ LT(n.high, n.close)
     THEN <<Issue("high", "high must be >= max(open, close)", "custom")>> ELSE << >>)
    \o (IF GT(n.low, n.open) \/ GT(n.low, n.close)
        THEN <<Issue("low", "low must be <= min(open, close)", "custom")>> ELSE << >>)
    \o (IF LT(n.high, n.low)
        THEN <<Issue("high", "high must be >= low", "custom")>> ELSE << >>)
    \o (IF GT(Times[Minus(n.high, n.low), 20], Plus[n.high, n.low])
        THEN <<Issue("high", "spread exceeds 10%", "custom")>> ELSE << >>)

CrossRulesAccumulate(n, errors) == PerFieldRulesPass(n) => errors = ViolatedCrossRules(n)

\* C13: when every per-field rule passes, validateFormData returns exactly one error for
\* each violated cross-field rule, in rule order, whatever the earlier rules found
C13_CrossRulesAccumulate ==
    result.op = "validateFormData" =>
        CrossRulesAccumulate(ParsedFields(arg), result.outcome.errors)

C13_Witness ==
    /\ result.op = "validateFormData"
    /\ Len(result.outcome.errors) = 3
    /\ \A i \in 1..3 : result.outcome.errors[i].message \in
            {"high must be >= max(open, close)", "low must be <= min(open, close)",
             "high must be >= low"}

\* C14 as stated: for open 1.0850, high 1.0800, low 1.0840, close 1.0860, volume 1000000
\* the structural validator returns exactly one error, on field high, saying that
\* high >= max(open, close) is violated
C14_OneErrorOnHigh ==
    (result.op = "validateFormData" /\ arg = FormHighBelow) =>
        result.outcome.errors =
            <<Issue("high", "high must be >= max(open, close)", "custom")>>

\* C14: for that input the structural validator returns exactly two errors, both on field
\* high: high >= max(open, close) is violated, and so is high >= low (1.0800 < 1.0840)
C14_TwoErrorsOnHigh ==
    (result.op = "validateFormData" /\ arg = FormHighBelow) =>
        /\ ~result.outcome.isValid
        /\ result.outcome.errors =
               <<Issue("high", "high must be >= max(open, close)", "custom"),
                 Issue("high", "high must be >= low", "custom")>>

C14_Witness ==
    /\ result.op = "validateFormData"
    /\ arg = FormHighBelow
    /\ Len(result.outcome.errors) = 2

\* C15: validate, save, undo and redo always return a result object and never throw or
\* reject, also when the persistence callback rejects
C15_FailuresAreData ==
    result.op \in {"validate", "save", "undo", "redo"} =>
        ~(result.op = "save" /\ result.kind = "threw")

\* C16: business-rule violations never block a commit: a form that is filled in, shows no
\* field error and passes the structural validator is reported as valid for saving,
\* whatever the Business-Rule Analyzer returned for it
C16_BusinessRulesNeverBlock ==
    (/\ hook.mounted
     /\ DOMAIN hook.errors = {}
     /\ validateFormData(sanitizeFormData(hook.formData)).isValid)
        => isValid

\* the buckets of two indices agree, a session without a bucket counting as an empty one
SameBuckets(ix, iy) ==
    \A sessionId \in DOMAIN ix.bySessionId \cup DOMAIN iy.bySessionId :
        getCandlesBySessionId(ix, sessionId) = getCandlesBySessionId(iy, sessionId)

\* C17: index convergence: after buildIndices and any addCandle and removeCandle calls,
\* byId, bySessionId and byTimestamp are what buildIndices gives for the records that
\* are left
C17_IndexConvergence ==
    result.op \in {"buildIndices", "addCandle", "removeCandle"} =>
        /\ indices.byId = buildIndices(records).byId
        /\ SameBuckets(indices, buildIndices(records))
        /\ indices.byTimestamp = buildIndices(records).byTimestamp

\* the candles with an id that the index holds somewhere
Indexed ==
    {indices.byId[id] : id \in DOMAIN indices.byId}
    \cup {c \in UNION {{b[i] : i \in 1..Len(b)} :
                          b \in {indices.bySessionId[s] : s \in DOMAIN indices.bySessionId}} :
             c.id # ""}

InById(c) == c.id \in DOMAIN indices.byId /\ indices.byId[c.id] = c

InBucket(c) ==
    \E i \in 1..Len(getCandlesBySessionId(indices, c.session_id)) :
        getCandlesBySessionId(indices, c.session_id)[i] = c

HasInstant(c) == getTime(c.candle_datetime) \in DOMAIN indices.byTimestamp

\* C18: the three mappings agree: a candle with an id is reachable through byId iff it is
\* in the bucket of its session iff byTimestamp has an entry for its instant
C18_MappingsConsistent ==
    \A c \in Indexed : (InById(c) <=> InBucket(c)) /\ (InBucket(c) <=> HasInstant(c))

\* C19: the queries leave the three mappings as they are, the order of every bucket
\* included
C19_QueriesSideEffectFree ==
    [][(result'.op \in {"getCandleById", "getCandlesBySessionId", "getCandleByTimestamp",
                        "getCandlesInRange", "getCandlesByIndexRange", "getLatestCandles"})
          => indices' = indices]_vars

\* a getValidation that follows at once a setValidation of the same fields
GetFollowsSet ==
    /\ result.op = "getValidation"
    /\ result.after.op = "setValidation"
    /\ result.after.data = result.data
    /\ result.after.at = result.at

\* C20: cache correctness: whatever the cache held, a getValidation that follows at once
\* the setValidation of the same fields returns the outcome that was stored
C20_SetThenGet == GetFollowsSet => result.out = <<result.after.value>>

\* the cache was full and the fields new to it, so an entry was evicted to store them
C20_Witness ==
    /\ GetFollowsSet
    /\ result.after.full
    /\ ~result.after.known
    /\ result.out = <<result.after.value>>
    /\ Len(cache) = maxSize

\* C21: cache expiry: a getValidation that happens more than the TTL after the
\* setValidation that stored an outcome never returns that outcome, whatever lookups
\* happened in between: it returns null and the entry is gone
C21_ExpiredNeverReturned ==
    (/\ result.op = "getValidation"
     /\ result.entry # << >>
     /\ result.at - result.entry[1].storedAt > ttl)
        => /\ result.out = << >>
           /\ KeyIndex(cache, generateKey(result.data)) = 0

\* C22: after any sequence of setValidation and getValidation calls the cache holds at
\* most maxSize (100) entries
C22_AtMostCapacity == Len(cache) <= maxSize

\* a setValidation of a new key found the cache full and left it full
C22_Witness ==
    /\ result.op = "setValidation"
    /\ result.full
    /\ ~result.known
    /\ Len(cache) = maxSize

Keys(c) == {c[i].key : i \in 1..Len(c)}

\* no entry of c undercuts its entry i in accessCount * 1000 + timestamp
Lowest(c, i) ==
    \A j \in 1..Len(c) :
        c[i].accessCount * 1000 + c[i].timestamp <= c[j].accessCount * 1000 + c[j].timestamp

\* the keys before the call without that of entry i and with the key that was set are the
\* keys after the call
OneGone(before, i, key, after) ==
    /\ before[i].key \notin after \ {key}
    /\ after = (Keys(before) \ {before[i].key}) \cup {key}

\* C23: a setValidation that finds the cache full evicts exactly one entry, and it is an
\* entry with the lowest composite score accessCount * 1000 + timestamp among those present:
\* the keys after the call are those before it without the key of one lowest entry, and with
\* the key that was set
C23_EvictsOneLowest ==
    [][(/\ opCount' = opCount + 1
        /\ result'.op = "setValidation"
        /\ result'.full)
           => \E i \in 1..Len(cache) :
                 /\ OneGone(cache, i, generateKey(result'.data), Keys(cache'))
                 /\ Lowest(cache, i)]_vars

\* a full cache whose first entry had been looked up took a new key: the second entry went
\* and the first one stayed
C23_Witness ==
    /\ result.op = "setValidation"
    /\ result.full
    /\ ~result.known
    /\ Len(cache) = maxSize
    /\ KeyIndex(cache, generateKey(CacheForm(1))) # 0
    /\ cache[KeyIndex(cache, generateKey(CacheForm(1)))].accessCount = 2
    /\ KeyIndex(cache, generateKey(CacheForm(2))) = 0

\* C24: the cache key is the exact tuple of the five raw fields: a getValidation returns
\* only an outcome that a setValidation stored for the same (open, high, low, close, volume)
C24_KeyIsExactTuple ==
    (/\ result.op = "getValidation"
     /\ result.out # << >>)
        => result.entry[1].data = result.data

\* the violations of the volume check among those of a call
OfVolume(out) == SelectSeq(out, LAMBDA v : v.rule \in {"ABNORMAL_VOLUME", "LOW_VOLUME"})

\* volume / prior in tenths, rounded half up
RoundedTenths(volume, prior) == (20 * volume + prior) \div (2 * prior)

\* the digits of a natural number
NatString(n) == IF n = 0 THEN <<"0">> ELSE [i \in 1..Len(NatDigits(n)) |-> DigitChar(NatDigits(n)[i])]

\* C25: with at least 20 prior records, a candidate whose volume exceeds 5 times the average
\* of the last 20 gets exactly one violation of the volume check: ABNORMAL_VOLUME, a warning
\* that cites volume / average to one decimal (6.0 for 6,000,000 against 1,000,000); with
\* fewer than 20 prior records the volume check emits nothing
C25_AbnormalVolume ==
    result.op = "validateBusinessRules"
        => /\ (arg.count >= 20 /\ arg.volume > 5 * arg.prior)
                  => /\ Len(OfVolume(result.out)) = 1
                     /\ OfVolume(result.out)[1].rule = "ABNORMAL_VOLUME"
                     /\ OfVolume(result.out)[1].severity = "warning"
                     /\ arg.prior > 0
                            => OfVolume(result.out)[1].times
                                   = NatString(RoundedTenths(arg.volume, arg.prior) \div 10)
                                     \o <<".">>
                                     \o NatString(RoundedTenths(arg.volume, arg.prior) % 10)
           /\ arg.count < 20 => OfVolume(result.out) = << >>

\* the scenario: 21 prior records, the last 20 of volume 1,000,000, and a candidate of
\* volume 6,000,000 that is cited as 6.0 times the average
C25_Witness ==
    /\ result.op = "validateBusinessRules"
    /\ arg = [volume |-> 6000000, prior |-> 1000000, count |-> 21, old |-> 9000000]
    /\ OfVolume(result.out) # << >>
    /\ OfVolume(result.out)[1].times = <<"6", ".", "0">>

\* C26: for every field the candidates of getSuggestions are ordered by descending
\* confidence, and candidates of equal confidence keep the order in which they were pushed
C26_RankedAndStable ==
    result.op = "getSuggestions"
        => \A i \in 1..Len(result.out) : \A j \in 1..Len(result.out) :
               i < j => \/ result.out[i].confidence > result.out[j].confidence
                        \/ /\ result.out[i].confidence = result.out[j].confidence
                           /\ result.out[i].pushed < result.out[j].pushed

\* the four candidates for close: the trend candidate was pushed last and comes first, and
\* the bullish one stays ahead of the bearish one
C26_Witness ==
    /\ result.op = "getSuggestions"
    /\ arg.field = "close"
    /\ Len(result.out) = 4
    /\ result.out[1].pushed = 4
    /\ result.out[2].label = "bullish"
    /\ result.out[3].label = "bearish"

\* C27: the Suggestion Engine never errors, and with an empty history window it returns an
\* empty list for every field and every partial form
C27_EmptyWithoutHistory ==
    result.op = "getSuggestions"
        => /\ ~result.threw
           /\ arg.length = 0 => result.out = << >>

\* the form that holds the open, high, low, close and volume of a row
FormOfRow(row) ==
    [open |-> row.open, high |-> row.high, low |-> row.low, close |-> row.close,
     volume |-> row.volume]

\* C28: the import applies the validator of the manual input: every row that parseCSV or
\* parseJSON accepts holds values that validateFormData accepts, so that a row with a spread
\* ratio over 10% or with a price or a volume at its upper bound is rejected
C28_ImportAsManualInput ==
    result.op \in {"parseCSV", "parseJSON"}
        => \A i \in 1..Len(result.out.rows) :
               validateFormData(FormOfRow(result.out.rows[i])).isValid

\* C29: the sequence index is unique within a session: no two records that save has
\* committed for one session, and that were not undone, have the same candle_index
C29_IndexUniqueInSession ==
    \A i \in LiveEntries(log) : \A j \in LiveEntries(log) :
        (/\ i # j
         /\ log[i].candle.session_id = log[j].candle.session_id)
            => log[i].candle.candle_index # log[j].candle.candle_index

\* the map that the calls of checkRateLimit leave when no cleanup runs: the window of each
\* identifier that was looked up, with the count of its calls up to the quota
Uncleaned ==
    [id \in DOMAIN rlCalls |->
        [count     |-> IF rlCalls[id] > MAX_REQUESTS_PER_WINDOW THEN MAX_REQUESTS_PER_WINDOW
                       ELSE rlCalls[id],
         resetTime |-> rlOpened[id] + RATE_LIMIT_WINDOW]]

\* C30: the cleanup is safe to interleave with the lookups: whenever it has run, the map
\* lacks only entries whose window has expired and holds the others as they were, and every
\* later checkRateLimit returns what it returns when no cleanup has run
C30_CleanupIsSafe ==
    /\ DOMAIN rateLimitMap \subseteq DOMAIN Uncleaned
    /\ \A id \in DOMAIN Uncleaned :
          IF id \in DOMAIN rateLimitMap THEN rateLimitMap[id] = Uncleaned[id]
          ELSE now > Uncleaned[id].resetTime
    /\ \A sessionId \in env.sessions : \A t \in env.instants :
          t >= now => /\ checkRateLimit(rateLimitMap, generateIdentifier(sessionId), t)
                         = checkRateLimit(Uncleaned, generateIdentifier(sessionId), t)
                      /\ RateLimitAfter(rateLimitMap, generateIdentifier(sessionId), t)
                             [generateIdentifier(sessionId)]
                         = RateLimitAfter(Uncleaned, generateIdentifier(sessionId), t)
                               [generateIdentifier(sessionId)]

\* the cleanup has removed the window of one identifier, and a lookup of another one has
\* opened a window at the same instant
C30_Witness ==
    /\ result.op = "checkRateLimit"
    /\ rlOpened[result.identifier] = now
    /\ \E id \in DOMAIN rlCalls :
          /\ id # result.identifier
          /\ id \notin DOMAIN rateLimitMap

\* C31: the history belongs to the editing session: every record of the undo stack and of
\* the redo stack has the session id of the current session
C31_HistoryOfCurrentSession ==
    /\ \A i \in 1..Len(undoStack) : undoStack[i].session_id = session
    /\ \A i \in 1..Len(redoStack) : redoStack[i].session_id = session

\* no entry of c has a lower access count than its entry i
RarelyUsed(c, i) == \A j \in 1..Len(c) : c[i].accessCount <= c[j].accessCount

\* C32: eviction prefers the entries that are rarely used: a setValidation that finds the
\* cache full evicts an entry only if no entry present has a strictly lower access count
C32_EvictsRarelyUsed ==
    [][(/\ opCount' = opCount + 1
        /\ result'.op = "setValidation"
        /\ result'.full)
           => \E i \in 1..Len(cache) :
                 /\ OneGone(cache, i, generateKey(result'.data), Keys(cache'))
                 /\ RarelyUsed(cache, i)]_vars

\* C33: the volume check is guarded against a division by zero: when the average volume of
\* the last 20 records is zero it emits no violation, whatever the volume of the candidate
C33_NoViolationOnZeroAverage ==
    (/\ result.op = "validateBusinessRules"
     /\ arg.count >= 20
     /\ arg.prior = 0)
        => OfVolume(result.out) = << >>

\* the numbers entered in the fields that bound a field: open, low and close for high, and
\* open, high and close for low
Bounding(field) ==
    IF field = "high" THEN {"open", "low", "close"} ELSE {"open", "high", "close"}

EnteredNumbers(formData, fields) ==
    {v \in {parseFloat(formData[f]) : f \in {g \in fields : formData[g] # << >>}} : ~IsNaN(v)}

\* C34: the candidate of confidence 80 for high is the maximum of the entered open, low and
\* close, the one for low is the minimum of the entered open, high and close; it is offered
\* only when one of these fields is entered, and its value is a finite positive number
C34_TightestValue ==
    (result.op = "getSuggestions" /\ arg.field \in {"high", "low"})
        => \A i \in 1..Len(result.out) :
               result.out[i].confidence = 80
                   => /\ result.out[i].value \in EnteredNumbers(arg.formData, Bounding(arg.field))
                      /\ IsFinite(result.out[i].value)
                      /\ GT(result.out[i].value, Zero)
                      /\ \A v \in EnteredNumbers(arg.formData, Bounding(arg.field)) :
                            IF arg.field = "high" THEN GE(result.out[i].value, v)
                            ELSE LE(result.out[i].value, v)

\* the field in which a form differs from FormGood
DefectField(data) == CHOOSE f \in {"open", "high", "low", "close", "volume"} : data[f] # FormGood[f]

\* C35: the rules of a field are reported for that field: for a form whose only defect is
\* one empty or negative field, a validate that is not rate limited returns an error whose
\* field is the name of that field
C35_FieldScopedErrors ==
    (/\ result.op = "validate"
     /\ result.form \in DefectForms
     /\ rlCalls[generateIdentifier(session)] <= MAX_REQUESTS_PER_WINDOW)
        => \E i \in 1..Len(result.outcome.errors) :
               result.outcome.errors[i].field = DefectField(result.form)

\* C36: in the candle input store operationHistory never holds more than 50 operations,
\* currentOperationIndex is always operationHistory.length - 1 (-1 when empty), and a call
\* that records an operation keeps the operations up to the current index, appends the new
\* one and drops the oldest when that makes more than 50.
C36_StoreHistoryBounded ==
    /\ [](/\ Len(store.operationHistory) <= HistoryLimit
          /\ store.currentOperationIndex = Len(store.operationHistory) - 1)
    /\ [][(opCount' = opCount + 1 /\ result'.op \in {"addCandle", "removeCandle", "recordOperation"}
             /\ result'.recorded # << >>)
          => \E kept \in {SubSeq(store.operationHistory, 1, store.currentOperationIndex + 1)
                             \o result'.recorded} :
                store'.operationHistory =
                    IF Len(kept) > HistoryLimit THEN SubSeq(kept, 2, Len(kept)) ELSE kept]_vars

\* addCandle on a full history dropped the oldest operation
C36_Witness ==
    /\ result.op = "addCandle"
    /\ Len(store.operationHistory) = HistoryLimit
    /\ store.operationHistory[1].timestamp > 1
    /\ store.operationHistory[HistoryLimit].type = "add"

\* C37: the counter stored for an identifier is always between 1 and the quota of 100, and
\* a call of checkRateLimit that is rejected leaves the entry of its identifier (counter and
\* reset time) as it was.
C37_CounterWithinQuota ==
    /\ [](\A id \in DOMAIN rateLimitMap :
              /\ rateLimitMap[id].count >= 1
              /\ rateLimitMap[id].count <= MAX_REQUESTS_PER_WINDOW)
    /\ [][(opCount' = opCount + 1 /\ result'.op = "checkRateLimit" /\ ~result'.check.passed)
          => /\ result'.identifier \in DOMAIN rateLimitMap
             /\ result'.identifier \in DOMAIN rateLimitMap'
             /\ rateLimitMap'[result'.identifier] = rateLimitMap[result'.identifier]]_vars

\* a call was rejected with the counter at the quota
C37_Witness ==
    /\ result.op = "checkRateLimit"
    /\ ~result.check.passed
    /\ result.identifier \in DOMAIN rateLimitMap
    /\ rateLimitMap[result.identifier].count = MAX_REQUESTS_PER_WINDOW

\* C38: validate changes no shared state: a call of validate leaves the rate-limit window
\* map and the undo and redo stacks as they were.
C38_ValidateIsPure ==
    [][(opCount' = opCount + 1 /\ result'.op = "validate")
       => UNCHANGED <<rateLimitMap, undoStack, redoStack>>]_vars

TimesIn(s, c) == Cardinality({i \in 1..Len(s) : s[i] = c})

\* the two stacks together hold the same records, each as often
SameContents(s, t) ==
    /\ Len(s) = Len(t)
    /\ \A i \in 1..Len(s) : TimesIn(s, s[i]) = TimesIn(t, s[i])

\* C39: a successful undo moves the top record of the undo stack onto the redo stack and a
\* successful redo moves the top record of the redo stack onto the undo stack; a redo that
\* follows a successful undo moves back the record that undo returned, so that both stacks
\* are as before the undo; the records of the two stacks together change only with a
\* successful save or clearHistory; a failed save, validate, canUndo and canRedo leave both
\* stacks as they were.
C39_UndoRedoMoveRecords ==
    [][/\ (result'.op = "undo" /\ result'.success)
           => /\ undoStack = Append(undoStack', result'.candle)
              /\ redoStack' = Append(redoStack, result'.candle)
       /\ (result'.op = "redo" /\ result'.success)
           => /\ redoStack = Append(redoStack', result'.candle)
              /\ undoStack' = Append(undoStack, result'.candle)
       /\ (result.op = "undo" /\ result.success /\ result'.op = "redo")
           => /\ result'.success
              /\ result'.candle = result.candle
       /\ ~SameContents(undoStack \o redoStack, undoStack' \o redoStack')
           => \/ result'.op = "save" /\ result'.kind = "saved"
              \/ result'.op = "clearHistory"
       /\ (\/ result'.op = "save" /\ result'.kind # "saved"
           \/ result'.op \in {"validate", "canUndo", "canRedo"})
           => UNCHANGED <<undoStack, redoStack>>]_vars

\* a redo after a successful undo, with a record left on each stack
C39_Witness ==
    /\ result.op = "redo"
    /\ result.success
    /\ Len(undoStack) >= 2
    /\ opCount >= 3

====
